---- MODULE Spec2Model ----
(***************************************************************************)
(* Model of the Nmind Companion browser extension's messaging layer        *)
(* (Endpoint router, BackgroundListener, NativeHostClient, TabListener and *)
(* the page's ExtensionClient), of its download and print services and of  *)
(* the background script's document routes.                                *)
(*                                                                         *)
(* JavaScript values are records tagged by field t, so that any two values *)
(* can be compared.  A property read of an absent property is Undef.       *)
(***************************************************************************)
EXTENDS Integers, Sequences, FiniteSets, TLC

VARIABLES
    cls,        \* class of the endpoint object: "Endpoint" or "BackgroundListener"
    routes,     \* Endpoint.routes: own properties, route name -> handler id
    plain,      \* Endpoint.pipes.plain (an array, possibly with holes)
    regexp,     \* Endpoint.pipes.regexp (an array, possibly with holes)
    forwarder,  \* Endpoint.forwarder: which methods the forwarder object has
    last,       \* the last call made on the endpoint and what it returned
    nreq,       \* NativeHostClient.request: the calls made and their promises
    dl,         \* the browser's side of each download id
    jobs,       \* DownloadService.jobs: download id -> entry
    dcalls,     \* DownloadService.createJob calls and their promises
    removed,    \* browser.downloads.removeFile calls, per download id
    erased,     \* browser.downloads.erase calls, per download id
    finished,   \* onFinish invocations of download jobs, per download id
    dfault,     \* whether the last download listener call raised a TypeError
    pjobs,      \* PrinterService.jobs: filename -> job
    pcalls,     \* PrinterService.createJob calls and their native requests
    pdone,      \* onFinish invocations of print jobs, per createJob call
    nport,      \* NativeHostClient.port: 0 for null, else the number of a port
    nports,     \* the ports connectNative has returned, in the browser
    nlast,      \* the last NativeHostClient connection call and its result
    build,      \* the background script that runs: "js" (app.js) or "ts"
    options,    \* Storage.options.printer
    lports,     \* BackgroundListener.ports: context id -> port number, 0 if none
    lopen,      \* the runtime ports that are connected, by number
    lconn,      \* how many runtime ports have connected so far
    areqs,      \* the companion.document.* requests the background script handled
    posted,     \* the messages BackgroundListener.post put on a port
    pnodes,     \* the text nodes that carried an io.nmind.request event
    fwd,        \* forwarder of each endpoint: an endpoint, 0 for {}, -1 for undefined
    flast,      \* the last join, forward or route call among these endpoints
    dirDownloads, \* DownloadService.dirDownloads: null until configure() is called
    hostClient  \* PrinterService.hostClient: null until configure() is called

routeVars == <<cls, routes, plain, regexp, forwarder, last>>
nativeVars == <<nreq>>
dlVars == <<dl, jobs, dcalls, removed, erased, finished, dfault>>
prVars == <<pjobs, pcalls, pdone>>
connVars == <<nport, nports, nlast>>
appVars == <<build, options, lports, lopen, lconn, areqs, posted>>
pageVars == <<pnodes>>
joinVars == <<fwd, flast>>
svcVars == <<dirDownloads, hostClient>>
extVars == <<connVars, appVars, pageVars, joinVars, svcVars>>
vars == <<routeVars, nativeVars, dlVars, prVars, extVars>>

----------------------------------------------------------------------------
(* Bounds *)

MaxRoutes == 1
MaxPlain == 1
MaxRegexp == 1
MaxHoles == 1
MaxNative == 2
MaxDownloads == 1
MaxPrints == 2
MaxPorts == 3
MaxContextPorts == 1
MaxRequests == 1
MaxNodes == 2
MaxEndpoints == 3

----------------------------------------------------------------------------
(* JavaScript values *)

Undef == [t |-> "undefined"]
Null == [t |-> "null"]
Hole == [t |-> "hole"]
Str(s) == [t |-> "string", s |-> s]
Bool(b) == [t |-> "boolean", b |-> b]
Num(n) == [t |-> "number", n |-> n]
Arr(items) == [t |-> "array", items |-> items]
ErrorObj(m) == [t |-> "Error", message |-> Str(m)]
TypeErrorObj(m) == [t |-> "TypeError", message |-> Str(m)]
ErrLike(m, ty) == [t |-> "object", message |-> m, type |-> ty]
PromiseOf(id) == [t |-> "Promise", id |-> id]
PortOf(ctx) == [t |-> "port", contextId |-> Str(ctx)]
RegExpOf(id, src) == [t |-> "RegExp", id |-> id, source |-> src]

\* v.f in JavaScript, for a v that is neither null nor undefined
Get(v, f) == IF f \in DOMAIN v THEN v[f] ELSE Undef

\* ToBoolean
Truthy(v) ==
    CASE v.t = "undefined" -> FALSE
      [] v.t = "null" -> FALSE
      [] v.t = "boolean" -> v.b
      [] v.t = "string" -> v.s # ""
      [] v.t = "number" -> v.n # 0
      [] OTHER -> TRUE

\* typeof v === "object"
TypeofObject(v) == v.t \notin {"undefined", "string", "boolean", "number", "function"}

\* a || b
OrElse(a, b) == IF Truthy(a) THEN a ELSE b

\* Download ids the browser assigns, and the state of an id not yet assigned
DownloadIds == 1..MaxDownloads
NoDownload == [origin |-> "none", state |-> "none", created |-> FALSE]

\* Filenames of the documents sent to the printer
PrintFiles == {"/dl/a.pdf", "/dl/b.pdf"}

----------------------------------------------------------------------------
(* Message.ts *)

SuccessOf(data, name) ==
    [t |-> "Success", code |-> 200, name |-> name, refid |-> Undef, content |-> data]

FailureOf(message, type, name) ==
    [t |-> "Failure", code |-> 403, name |-> name, type |-> OrElse(type, Null),
     message |-> message]

UnknownOf(message, name) ==
    [t |-> "Unknown", code |-> 404, name |-> name, message |-> message]

\* The constructor replaces err by err.message before it reads err.type, so
\* the type is read from the message.  Message.ts tests err !== null before
\* it reads err.message; the JavaScript constructor does not, and new
\* ScriptError(null) throws there.
ScriptErrorOf(err, type, name) ==
    LET unwrap == TypeofObject(err) /\ err.t # "null" /\ Truthy(Get(err, "message"))
        err1 == IF unwrap THEN Get(err, "message") ELSE err
        type1 == IF unwrap /\ err1.t \notin {"undefined", "null"}
                             /\ Truthy(Get(err1, "type"))
                 THEN Get(err1, "type") ELSE type
    IN IF err.t = "null" /\ build = "js"
       THEN [t |-> "throw",
             v |-> TypeErrorObj("Cannot read properties of null (reading 'message')")]
       ELSE [t |-> "ScriptError", code |-> 500, name |-> name,
             type |-> OrElse(type1, Null), message |-> err1]

Message_success(data) == SuccessOf(data, Undef)
Message_failure(message) == FailureOf(message, Undef, Undef)
Message_unknown(message) == UnknownOf(message, Undef)
Message_error(err, type) == ScriptErrorOf(err, type, Undef)

IsResponse(v) == v.t \in {"Success", "Failure", "Unknown", "ScriptError"}
IsPromise(v) == v.t = "Promise"

----------------------------------------------------------------------------
(* Endpoint: the router *)

\* Names under which handlers and string pipes are registered
RouteNames == {"companion.ping", "content.ping"}
\* A name that only a pattern can match
PatternNames == {"background.ping"}
\* Properties the route table inherits: routes is a plain object in
\* Endpoint.ts and an array in Endpoint.js
InheritedNames == {"toString"}
\* Names a request may carry
RequestNames == RouteNames \cup PatternNames \cup InheritedNames

HandlerIds == {"H1", "H2"}
NoHandler == "none"

REBackground == RegExpOf(1, "background\\..+")
RECompanion == RegExpOf(2, "companion\\..+")
RegExps == {REBackground, RECompanion}

\* regexp.test(name), on the names of RequestNames
Test(re, name) ==
    CASE re.source = "background\\..+" -> name \in {"background.ping"}
      [] re.source = "companion\\..+" -> name \in {"companion.ping"}
      [] OTHER -> FALSE

\* What a handler, or a forwarder method, does when it is called
Returns ==
    {Str("pong"), Undef, Message_failure(Str("denied")), PromiseOf(1)}
Throws == {ErrorObj("boom"), Str("bad")}
Outcomes ==
    [k : {"return"}, v : Returns] \cup [k : {"throw"}, v : Throws]
NoOutcome == [k |-> "none", v |-> Undef]

ParamsSet ==
    {Str("x"), Arr(<<>>), Arr(<<Str("x")>>), Arr(<<Str("x"), Str("y")>>)}
SilentSet == {Undef, Bool(FALSE), Bool(TRUE)}
ThePort == PortOf("ctx1")
PortSet == {Undef, ThePort}
ForwarderKinds == {"none", "request", "post", "both"}

\* array.includes(x) and array.indexOf(x) for an array with holes
Includes(list, x) == \E i \in 1..Len(list) : list[i] = x
IndexOf(list, x) ==
    IF Includes(list, x)
    THEN CHOOSE i \in 1..Len(list) :
             list[i] = x /\ \A j \in 1..(i - 1) : list[j] # x
    ELSE 0

\* The TypeErrors the JavaScript router (Endpoint.js) raises: _findRoute calls
\* test on a deleted pattern, forward() reads request off a forwarder the
\* constructor left undefined, join() is called without an endpoint
TestOfUndefined ==
    TypeErrorObj("Cannot read properties of undefined (reading 'test')")
RequestOfUndefined ==
    TypeErrorObj("Cannot read properties of undefined (reading 'request')")
ForwarderOfUndefined ==
    TypeErrorObj("Cannot set properties of undefined (setting 'forwarder')")

\* An exception that leaves the call
Thrown(err) == [t |-> "throw", v |-> err]

\* this.forwarder after the constructor: left undefined by Endpoint.js, an
\* empty object in Endpoint.ts
NewForwarder == IF build = "js" THEN "undefined" ELSE "none"

\* The forwarder reference of an endpoint of Endpoint.js that was never
\* joined: undefined
NotJoined == 0 - 1

\* this.routes[name]: an own property, else an inherited one, else undefined
RoutesLookup(rts, name) ==
    IF name \in DOMAIN rts /\ rts[name] # NoHandler
    THEN [kind |-> "handler", h |-> rts[name]]
    ELSE IF name \in InheritedNames
         THEN [kind |-> "inherited", h |-> name]
         ELSE [kind |-> "undefined", h |-> NoHandler]

\* Endpoint._findRoute.  The loop over the patterns ends at the first one that matches; a deleted
\* pattern is skipped by Endpoint.ts, while Endpoint.js calls test on it and
\* the TypeError leaves _findRoute
FindRoute(rts, pl, re, name) ==
    LET own == RoutesLookup(rts, name)
        stops == {i \in 1..Len(re) :
                     IF re[i] = Hole THEN build = "js" ELSE Test(re[i], name)}
        first == CHOOSE i \in stops : \A j \in stops : i <= j
    IN IF own.kind # "undefined" THEN own
       ELSE IF Includes(pl, Str(name)) THEN [kind |-> "pipe", h |-> "plain"]
       ELSE IF stops = {} THEN [kind |-> "null", h |-> NoHandler]
       ELSE IF re[first] = Hole THEN [kind |-> "throw", h |-> NoHandler]
       ELSE [kind |-> "pipe", h |-> "regexp"]

\* Endpoint._buildArguments, were an array of params never spread
BuildArgumentsOneParam(params, port) ==
    IF Truthy(port) THEN <<port, params>> ELSE <<params>>

\* Endpoint._buildArguments
BuildArguments(params, port) ==
    IF Truthy(port)
    THEN IF params.t = "array" THEN <<port>> \o params.items ELSE <<port, params>>
    ELSE IF params.t = "array" THEN params.items ELSE <<params>>

\* The params value built by the handler that _createPipe returns, were a
\* single argument not unwrapped
PipeParamsAlwaysArray(c, args) ==
    IF c = "BackgroundListener"
    THEN IF Len(args) <= 1 THEN Null ELSE Arr(Tail(args))
    ELSE IF Len(args) = 0 THEN Null ELSE Arr(args)

\* The params value built by the handler that _createPipe returns
PipeParams(c, args) ==
    IF c = "BackgroundListener"
    THEN IF Len(args) = 1 THEN Null
         ELSE IF Len(args) = 2 THEN args[2]
         ELSE IF Len(args) = 0 THEN Arr(<<>>) ELSE Arr(Tail(args))
    ELSE IF Len(args) = 0 THEN Null
         ELSE IF Len(args) = 1 THEN args[1]
         ELSE Arr(args)

\* Endpoint.forward: the forwarder method that is called, were post probed
\* before request
ForwardMethodPostFirst(fw) ==
    CASE fw \in {"post", "both"} -> "post"
      [] fw = "request" -> "request"
      [] OTHER -> "none"

\* Endpoint.forward: the forwarder method that is called
ForwardMethod(fw) ==
    CASE fw \in {"request", "both"} -> "request"
      [] fw = "post" -> "post"
      [] OTHER -> "none"

CallOf(kind, who, args) == [kind |-> kind, who |-> who, args |-> args]

\* err?.message
OptMessage(err) ==
    IF err.t \in {"undefined", "null"} THEN Undef ELSE Get(err, "message")

\* Endpoint._routeCall, given what the handler did
RouteCallWrapAll(outcome) ==
    IF outcome.k = "throw" THEN Message_failure(OptMessage(outcome.v))
    ELSE IF IsPromise(outcome.v) THEN outcome.v
    ELSE Message_success(outcome.v)

RouteCall(outcome) ==
    IF outcome.k = "throw" THEN Message_failure(OptMessage(outcome.v))
    ELSE IF IsPromise(outcome.v) \/ IsResponse(outcome.v) THEN outcome.v
    ELSE Message_success(outcome.v)

\* The calls made for a resolved route, and the outcome of the handler
HandlerCalls(c, fw, found, name, args, outcome) ==
    CASE found.kind = "handler" -> <<CallOf("handler", found.h, args)>>
      [] found.kind = "inherited" -> <<CallOf("inherited", found.h, args)>>
      [] found.kind = "pipe" ->
            IF ForwardMethod(fw) = "none"
            THEN <<CallOf("pipe", found.h, args)>>
            ELSE <<CallOf("pipe", found.h, args),
                   CallOf("forward", ForwardMethod(fw),
                          <<Str(name), PipeParams(c, args)>>)>>
      [] OTHER -> <<>>

\* What the resolved handler does: a registered handler and a forwarder method
\* do what the caller of the model chose; forward() without a forwarder
\* method returns undefined, and throws in Endpoint.js when the forwarder is
\* undefined. The inherited toString is Object.prototype.toString in
\* Endpoint.ts (routes = {}) and returns "[object Object]"; in Endpoint.js
\* (routes = []) it is Array.prototype.toString, which calls this.join():
\* join sets the forwarder to undefined and throws.
HandlerOutcome(fw, found, outcome) ==
    CASE found.kind = "handler" -> outcome
      [] found.kind = "inherited" ->
            IF build = "js"
            THEN [k |-> "throw", v |-> ForwarderOfUndefined]
            ELSE [k |-> "return", v |-> Str("[object Object]")]
      [] found.kind = "pipe" ->
            IF fw = "undefined" /\ build = "js"
            THEN [k |-> "throw", v |-> RequestOfUndefined]
            ELSE IF ForwardMethod(fw) = "none"
            THEN [k |-> "return", v |-> Undef]
            ELSE outcome
      [] OTHER -> NoOutcome

\* this.forwarder after route(): the inherited toString of Endpoint.js has
\* called join() without an endpoint
ForwarderAfter(fw, found) ==
    IF build = "js" /\ found.kind = "inherited" THEN "undefined" ELSE fw

\* request.silent = request.silent || false
Normalize(silent) == OrElse(silent, Bool(FALSE))

\* Endpoint.route: the value returned
RouteReturnAlways(found, name, silent, response) ==
    IF found.kind # "null" THEN response
    ELSE Message_unknown(Str("Unknown route '" \o name \o "'"))

RouteReturn(found, name, silent, response) ==
    IF found.kind # "null"
    THEN IF Normalize(silent) = Bool(FALSE) THEN response ELSE Undef
    ELSE Message_unknown(Str("Unknown route '" \o name \o "'"))

\* Endpoint.route(request, port), with the handler's behaviour given
RouteEval(c, rts, pl, re, fw, name, params, silent, port, outcome) ==
    LET found == FindRoute(rts, pl, re, name)
        args == BuildArguments(params, port)
        did == HandlerOutcome(fw, found, outcome)
        response == IF found.kind \in {"null", "throw"} THEN Undef
                    ELSE RouteCall(did)
    IN [request |-> [name |-> name, params |-> params,
                     silent |-> Normalize(silent),
                     async |-> Bool(FALSE), delay |-> Num(0)],
        port |-> port,
        found |-> found,
        calls |-> HandlerCalls(c, fw, found, name, args, outcome),
        did |-> did,
        result |-> IF found.kind = "throw" THEN Thrown(TestOfUndefined)
                   ELSE RouteReturn(found, name, silent, response)]

----------------------------------------------------------------------------
(* Endpoint: state and operations *)

Idle == [op |-> "idle"]

\* new Endpoint(), in the JavaScript or in the TypeScript sources
InitEndpoint(c) ==
    /\ build \in {"js", "ts"}
    /\ cls = c
    /\ routes = [n \in RouteNames |-> NoHandler]
    /\ plain = <<>>
    /\ regexp = <<>>
    /\ forwarder = NewForwarder
    /\ last = Idle

\* Endpoint.on(name, handler) with a function
On(name, h) ==
    /\ Cardinality({n \in RouteNames : n # name /\ routes[n] # NoHandler}) < MaxRoutes
    /\ last.op = "idle"
    /\ routes' = [routes EXCEPT ![name] = h]
    /\ last' = Idle
    /\ UNCHANGED <<cls, plain, regexp, forwarder>>

\* Endpoint.off(name)
Off(name) ==
    /\ last.op = "idle"
    /\ routes' = IF routes[name] # NoHandler
                 THEN [routes EXCEPT ![name] = NoHandler]
                 ELSE routes
    /\ last' = Idle
    /\ UNCHANGED <<cls, plain, regexp, forwarder>>

\* Endpoint.pipe(route) with a string or a RegExp
Pipe(m) ==
    /\ last.op = "idle"
    /\ IF m.t = "string"
       THEN /\ Len(plain) < MaxPlain
            /\ plain' = Append(plain, m)
            /\ UNCHANGED regexp
       ELSE /\ Len(SelectSeq(regexp, LAMBDA x : x # Hole)) < MaxRegexp
            /\ Len(regexp) < MaxRegexp + MaxHoles
            /\ regexp' = Append(regexp, m)
            /\ UNCHANGED plain
    /\ last' = Idle
    /\ UNCHANGED <<cls, routes, forwarder>>

\* delete list[list.indexOf(route)], when route is in the list
DeleteFirst(list, m) ==
    IF IndexOf(list, m) > 0 THEN [list EXCEPT ![IndexOf(list, m)] = Hole] ELSE list

\* Endpoint.unpipe(route) with a string or a RegExp
Unpipe(m) ==
    /\ last.op = "idle"
    /\ IF m.t = "string"
       THEN plain' = DeleteFirst(plain, m) /\ UNCHANGED regexp
       ELSE regexp' = DeleteFirst(regexp, m) /\ UNCHANGED plain
    /\ last' = Idle
    /\ UNCHANGED <<cls, routes, forwarder>>

\* Endpoint.join(endpoint), and the assignment of another forwarder object
Join(fw) ==
    /\ last.op = "idle"
    /\ forwarder' = fw
    /\ last' = Idle
    /\ UNCHANGED <<cls, routes, plain, regexp>>

\* Endpoint.route(request, port)
Route(name, params, silent, port, outcome) ==
    LET r == RouteEval(cls, routes, plain, regexp, forwarder,
                       name, params, silent, port, outcome)
    IN /\ last.op = "idle"
       /\ last' = [op |-> "route"] @@ r
       /\ forwarder' = ForwarderAfter(forwarder, r.found)
       /\ UNCHANGED <<cls, routes, plain, regexp>>

\* The caller takes the value returned
Return ==
    /\ last.op \in {"route", "handleRequest"}
    /\ last.op = "handleRequest" => last.deferred.state # "pending"
    /\ last' = Idle
    /\ UNCHANGED <<cls, routes, plain, regexp, forwarder>>

Configure ==
    \/ \E n \in RouteNames, h \in HandlerIds : On(n, h)
    \/ \E n \in RouteNames : Off(n)
    \/ \E m \in {Str(n) : n \in RouteNames} \cup RegExps : Pipe(m)
    \/ \E m \in {Str(n) : n \in RouteNames} \cup RegExps : Unpipe(m)
    \/ \E fw \in ForwarderKinds : Join(fw)

DoRoute ==
    \E n \in RequestNames, p \in ParamsSet, s \in SilentSet,
       port \in PortSet, o \in Outcomes : Route(n, p, s, port, o)

----------------------------------------------------------------------------
(* Parts of the state the router does not touch *)

\* DEFAULT_OPTIONS.printer
DEFAULT_OPTIONS == [activate |-> Bool(FALSE), default |-> Str("")]

InitNative == nreq = <<>>
InitConnection == nport = 0 /\ nports = <<>> /\ nlast = [op |-> "none"]
InitPorts == lports = [c \in {"ctx1"} |-> 0] /\ lopen = {} /\ lconn = 0
InitRequests == areqs = <<>> /\ posted = <<>>
InitApp ==
    /\ build \in {"js", "ts"}
    /\ options = DEFAULT_OPTIONS
    /\ InitPorts
    /\ InitRequests
InitNodes == pnodes = <<>>
InitJoin ==
    /\ fwd = [e \in 1..MaxEndpoints |-> IF build = "js" THEN NotJoined ELSE 0]
    /\ flast = [op |-> "none"]
\* new DownloadService(), new PrinterService(): nothing is configured yet
InitServices == dirDownloads = Null /\ hostClient = Null
InitExt == InitConnection /\ InitApp /\ InitNodes /\ InitJoin /\ InitServices
InitDownload ==
    /\ dl = [i \in DownloadIds |-> NoDownload]
    /\ jobs = [i \in DownloadIds |-> Undef]
    /\ dcalls = <<>>
    /\ removed = [i \in DownloadIds |-> 0]
    /\ erased = [i \in DownloadIds |-> 0]
    /\ finished = [i \in DownloadIds |-> <<>>]
    /\ dfault = FALSE
InitPrint ==
    /\ pjobs = [f \in PrintFiles |-> Undef]
    /\ pcalls = <<>>
    /\ pdone = <<>>

InitRoute == InitEndpoint("Endpoint") /\ InitNative /\ InitDownload /\ InitPrint /\ InitExt
NextRoute ==
    \/ Configure /\ UNCHANGED <<nativeVars, dlVars, prVars, extVars>>
    \/ DoRoute /\ UNCHANGED <<nativeVars, dlVars, prVars, extVars>>
    \/ Return /\ UNCHANGED <<nativeVars, dlVars, prVars, extVars>>

SpecRoute == InitRoute /\ [][NextRoute]_vars

----------------------------------------------------------------------------
(* Claims about Endpoint.route *)

\* What the specification of the router speaks of, for the routed name
Registered(name) == name \in RouteNames /\ routes[name] # NoHandler
InPlainPipes(name) == Includes(plain, Str(name))
PatternMatches(name) ==
    \E i \in 1..Len(regexp) : regexp[i] # Hole /\ Test(regexp[i], name)
Routed == last.op = "route"
HandlerCallsOf(calls) ==
    SelectSeq(calls, LAMBDA c : c.kind \in {"handler", "inherited", "pipe"})
ForwardCallsOf(calls) == SelectSeq(calls, LAMBDA c : c.kind = "forward")

\* C1: route() resolves in a fixed order: a handler registered under the name
\* is invoked, even when a string pipe or a pattern pipe matches the name too;
\* otherwise a name in the string pipe list is forwarded through a string
\* pipe; otherwise a name that a pattern matches is forwarded through a
\* pattern pipe.
C1_ResolutionOrder ==
    Routed =>
        LET n == last.request.name
        IN /\ Registered(n) =>
                 /\ Len(last.calls) = 1
                 /\ last.calls[1].kind = "handler"
                 /\ last.calls[1].who = routes[n]
           /\ (~Registered(n) /\ InPlainPipes(n)) =>
                 /\ Len(last.calls) >= 1
                 /\ last.calls[1] = CallOf("pipe", "plain", last.calls[1].args)
                 /\ Len(HandlerCallsOf(last.calls)) = 1
                 /\ ForwardMethod(forwarder) # "none" =>
                        /\ Len(last.calls) = 2
                        /\ last.calls[2].kind = "forward"
                        /\ last.calls[2].args[1] = Str(n)
           /\ (~Registered(n) /\ ~InPlainPipes(n) /\ PatternMatches(n)) =>
                 /\ Len(last.calls) >= 1
                 /\ last.calls[1] = CallOf("pipe", "regexp", last.calls[1].args)
                 /\ Len(HandlerCallsOf(last.calls)) = 1
                 /\ ForwardMethod(forwarder) # "none" =>
                        /\ Len(last.calls) = 2
                        /\ last.calls[2].kind = "forward"
                        /\ last.calls[2].args[1] = Str(n)

\* C2: when a registered handler throws e on a non-silent request, route()
\* returns a Response with code 500 whose message is e.message when e has a
\* message, and e itself otherwise.
C2_ThrowGivesScriptError ==
    (/\ Routed
     /\ last.found.kind = "handler"
     /\ last.did.k = "throw"
     /\ last.request.silent = Bool(FALSE)) =>
        /\ IsResponse(last.result)
        /\ last.result.code = 500
        /\ last.result.message =
               (IF Truthy(Get(last.did.v, "message"))
                THEN Get(last.did.v, "message") ELSE last.did.v)

\* C3: for a non-silent request to a registered route, a plain value returned
\* by the handler comes back as a Success response (code 200) whose content is
\* that value; a Response, and a pending result, come back unchanged.
C3_ReturnValueWrapping ==
    (/\ Routed
     /\ last.found.kind = "handler"
     /\ last.did.k = "return"
     /\ last.request.silent = Bool(FALSE)) =>
        LET v == last.did.v
        IN IF IsResponse(v) \/ IsPromise(v)
           THEN last.result = v
           ELSE /\ last.result.t = "Success"
                /\ last.result.code = 200
                /\ last.result.content = v

\* A plain value was wrapped, and a Response came back as it was.
C3_Witness ==
    /\ Routed
    /\ last.found.kind = "handler"
    /\ last.request.silent = Bool(FALSE)
    /\ last.did = [k |-> "return", v |-> Str("pong")]
    /\ last.result = Message_success(Str("pong"))

\* C4: route() of a name that has no registered handler, is in no string pipe
\* and is matched by no pattern pipe returns an Unknown response (code 404)
\* whose message contains the name, and calls no handler and no forwarder.
C4_UnknownRoute ==
    (/\ Routed
     /\ ~Registered(last.request.name)
     /\ ~InPlainPipes(last.request.name)
     /\ ~PatternMatches(last.request.name)) =>
        /\ last.result.t = "Unknown"
        /\ last.result.code = 404
        /\ last.result.message =
               Str("Unknown route '" \o last.request.name \o "'")
        /\ last.calls = <<>>

\* C7: a request with silent = true whose name resolves to a handler has the
\* handler invoked exactly once, and route() returns undefined whatever the
\* handler did.
C7_SilentRunsHandler ==
    (/\ Routed
     /\ last.request.silent = Bool(TRUE)
     /\ last.found.kind \notin {"null", "throw"}) =>
        /\ Len(HandlerCallsOf(last.calls)) = 1
        /\ last.result = Undef

\* A silent request ran a registered handler that returned a value.
C7_Witness ==
    /\ Routed
    /\ last.request.silent = Bool(TRUE)
    /\ last.found.kind = "handler"
    /\ last.did = [k |-> "return", v |-> Str("pong")]
    /\ Len(last.calls) = 1
    /\ last.result = Undef

----------------------------------------------------------------------------
(* BackgroundListener: the request/response (sendMessage) channel *)

NewPromise == PromiseOf(0)

\* response.code == 200
CodeIs200(v) == "code" \in DOMAIN v /\ v.code = 200

\* The promise handleRequest returns for the value route() returned: the
\* router's own promise, or a new promise settled by its executor (which
\* throws a TypeError when it reads the code of undefined).
HandleRequestAlwaysResolves(response) ==
    IF IsPromise(response)
    THEN [promise |-> response, state |-> "pending", value |-> Undef]
    ELSE [promise |-> NewPromise, state |-> "fulfilled", value |-> response]

HandleRequestDeferred(response) ==
    IF IsPromise(response)
    THEN [promise |-> response, state |-> "pending", value |-> Undef]
    ELSE IF response.t \in {"undefined", "null"}
    THEN [promise |-> NewPromise, state |-> "rejected",
          value |-> TypeErrorObj("response is undefined")]
    ELSE IF CodeIs200(response)
    THEN [promise |-> NewPromise, state |-> "fulfilled", value |-> response]
    ELSE [promise |-> NewPromise, state |-> "rejected",
          value |-> Message_error(Get(response, "message"), Get(response, "type"))]

\* BackgroundListener.handleRequest(message, sender)
HandleRequest(name, params, silent, outcome) ==
    LET r == RouteEval(cls, routes, plain, regexp, forwarder,
                       name, params, silent, ThePort, outcome)
    IN /\ cls = "BackgroundListener"
       /\ last.op = "idle"
       /\ last' = [op |-> "handleRequest",
                   deferred |-> IF r.result.t = "throw"
                                THEN [promise |-> Undef, state |-> "thrown",
                                      value |-> r.result.v]
                                ELSE HandleRequestDeferred(r.result)] @@ r
       /\ forwarder' = ForwarderAfter(forwarder, r.found)
       /\ UNCHANGED <<cls, routes, plain, regexp>>

\* What a promise made by a handler or by a forwarder settles with
Fulfilments == {Message_success(Str("pong")), Message_failure(Str("denied"))}
Rejections == {Message_error(Str("denied"), Undef), ErrorObj("boom")}

\* The promise that route() returned settles
Settle(how, v) ==
    /\ last.op = "handleRequest"
    /\ last.deferred.state = "pending"
    /\ last' = [last EXCEPT !.deferred.state = how, !.deferred.value = v]
    /\ UNCHANGED <<cls, routes, plain, regexp, forwarder>>

DoHandleRequest ==
    \E n \in RequestNames, p \in ParamsSet, s \in SilentSet, o \in Outcomes :
        HandleRequest(n, p, s, o)

DoSettle ==
    \/ \E v \in Fulfilments : Settle("fulfilled", v)
    \/ \E v \in Rejections : Settle("rejected", v)

InitListener ==
    InitEndpoint("BackgroundListener") /\ InitNative /\ InitDownload /\ InitPrint /\ InitExt
NextListener ==
    \/ Configure /\ UNCHANGED <<nativeVars, dlVars, prVars, extVars>>
    \/ DoHandleRequest /\ UNCHANGED <<nativeVars, dlVars, prVars, extVars>>
    \/ DoSettle /\ UNCHANGED <<nativeVars, dlVars, prVars, extVars>>
    \/ Return /\ UNCHANGED <<nativeVars, dlVars, prVars, extVars>>

SpecListener == InitListener /\ [][NextListener]_vars

\* C5, as amended: when route() returns synchronously, the promise that
\* handleRequest returns is a new one, already settled: fulfilled with the
\* response exactly when the response has code 200, rejected with a
\* ScriptError (code 500) carrying the response's message and type when the
\* response has another code, and rejected with the TypeError when route()
\* returned no value (a silent request).  When route() returns a pending
\* result, handleRequest returns that very promise; when route() throws,
\* handleRequest is left by the error and returns no promise.
C5_SyncSettledByCode ==
    last.op = "handleRequest" =>
        IF last.found.kind = "throw"
        THEN last.deferred = [promise |-> Undef, state |-> "thrown",
                              value |-> TestOfUndefined]
        ELSE IF IsPromise(last.result)
        THEN last.deferred.promise = last.result
        ELSE /\ last.deferred.promise = NewPromise
             /\ last.deferred.state \in {"fulfilled", "rejected"}
             /\ last.deferred.state = "fulfilled" <=> CodeIs200(last.result)
             /\ last.deferred.state = "fulfilled" =>
                    last.deferred.value = last.result
             /\ (last.deferred.state = "rejected" /\ IsResponse(last.result)) =>
                    /\ last.deferred.value.t = "ScriptError"
                    /\ last.deferred.value.code = 500
                    /\ last.deferred.value.message = Get(last.result, "message")
                    /\ last.deferred.value.type =
                           OrElse(Get(last.result, "type"), Null)
             /\ (last.deferred.state = "rejected" /\ ~IsResponse(last.result)) =>
                    /\ last.result = Undef
                    /\ last.deferred.value.t = "TypeError"

\* A handler returned a Failure (403) and the promise was rejected with a
\* ScriptError carrying its message.
C5_Witness ==
    /\ last.op = "handleRequest"
    /\ last.result = Message_failure(Str("denied"))
    /\ last.deferred.state = "rejected"
    /\ last.deferred.value = Message_error(Str("denied"), Null)

\* C5, as stated: the promise that handleRequest returns fulfils only with a
\* response whose code is 200 and rejects with an error-shaped value in every
\* other case, whether route() returned synchronously or a pending result.
C5_OnlyOn200 ==
    (last.op = "handleRequest" /\ last.deferred.state # "pending") =>
        /\ last.deferred.state = "fulfilled" => CodeIs200(last.deferred.value)
        /\ last.deferred.state = "rejected" =>
               last.deferred.value.t \in {"ScriptError", "Error", "TypeError"}

----------------------------------------------------------------------------
(* NativeHostClient.request *)

\* Routes requested from the native host
NativeRoutes == {"companion.ping", "companion.document.print"}

\* Message.request(route, params) with the async flag written by request()
RequestOf(name, params, async) ==
    [t |-> "Request", name |-> Str(name), params |-> params, id |-> Str("-1"),
     delay |-> 0, async |-> OrElse(async, Bool(FALSE)), silent |-> Bool(FALSE)]

\* What the native host answers: the JSON objects sendNativeMessage fulfils with
NativeResponses ==
    {[t |-> "object", code |-> 200, content |-> Str("pong")],
     [t |-> "object", code |-> 403, message |-> Str("denied"), type |-> Str("auth")],
     [t |-> "object", code |-> 404, message |-> Str("Unknown route")],
     [t |-> "object", code |-> 500, message |-> Str("crash"), type |-> Null]}
\* What sendNativeMessage rejects with when the transport fails
TransportErrors ==
    {ErrorObj("Native host has exited"), ErrorObj("No such native application")}

NativePending == [k |-> "pending", v |-> Undef]

\* The two callbacks request() passes to sendNativeMessage(...).then
OnNativeResponseAlwaysResolve(response) ==
    [state |-> "fulfilled", value |-> response]

OnNativeResponse(response) ==
    IF CodeIs200(response)
    THEN [state |-> "fulfilled", value |-> response]
    ELSE [state |-> "rejected",
          value |-> Message_error(Get(response, "message"), Get(response, "type"))]

OnNativeError(error) ==
    [state |-> "rejected", value |-> Message_error(error, Undef)]

\* NativeHostClient.request(route, params, async): one sendNativeMessage call
NativeRequest(route, params, async) ==
    /\ Len(nreq) < MaxNative
    /\ nreq' = Append(nreq, [request |-> RequestOf(route, params, async),
                             native |-> NativePending,
                             state |-> "pending", value |-> Undef])

\* sendNativeMessage fulfils with the native host's response
NativeAnswer(i, response) ==
    /\ nreq[i].native.k = "pending"
    /\ LET d == OnNativeResponse(response)
       IN nreq' = [nreq EXCEPT ![i].native = [k |-> "response", v |-> response],
                               ![i].state = d.state, ![i].value = d.value]

\* sendNativeMessage rejects, were the message sent again after a failure
NativeFailSendsAgain(i, error) ==
    /\ nreq[i].native.k \in {"pending", "error"}
    /\ nreq' = [nreq EXCEPT ![i].native = IF @.k = "pending"
                                          THEN [k |-> "error", v |-> error]
                                          ELSE NativePending]

\* sendNativeMessage rejects: the native transport failed
NativeFail(i, error) ==
    /\ nreq[i].native.k = "pending"
    /\ LET d == OnNativeError(error)
       IN nreq' = [nreq EXCEPT ![i].native = [k |-> "error", v |-> error],
                               ![i].state = d.state, ![i].value = d.value]

DoNativeRequest ==
    \E r \in NativeRoutes, p \in {Undef, Str("x")}, a \in {Undef, Bool(TRUE)} :
        NativeRequest(r, p, a)
DoNativeAnswer ==
    \E i \in 1..Len(nreq), r \in NativeResponses : NativeAnswer(i, r)
DoNativeFail ==
    \E i \in 1..Len(nreq), e \in TransportErrors : NativeFail(i, e)

InitNativeClient ==
    InitEndpoint("NativeHostClient") /\ InitNative /\ InitDownload /\ InitPrint /\ InitExt
NextNative ==
    \/ DoNativeRequest /\ UNCHANGED <<routeVars, dlVars, prVars, extVars>>
    \/ DoNativeAnswer /\ UNCHANGED <<routeVars, dlVars, prVars, extVars>>
    \/ DoNativeFail /\ UNCHANGED <<routeVars, dlVars, prVars, extVars>>

SpecNative == InitNativeClient /\ [][NextNative]_vars

\* C6: the promise returned by NativeHostClient.request is fulfilled (with
\* the response) if and only if the native host answered with code 200; for
\* any other code it is rejected with an error value that carries the
\* response's message and type; when the native transport fails it is
\* rejected with an error value that carries the transport error's message.
C6_RequestSettlement ==
    \A i \in 1..Len(nreq) :
        LET c == nreq[i]
        IN /\ c.state = "fulfilled" <=>
                  (c.native.k = "response" /\ CodeIs200(c.native.v))
           /\ c.state = "fulfilled" => c.value = c.native.v
           /\ (c.native.k = "response" /\ ~CodeIs200(c.native.v)) =>
                  /\ c.state = "rejected"
                  /\ c.value.t = "ScriptError"
                  /\ c.value.message = Get(c.native.v, "message")
                  /\ c.value.type = OrElse(Get(c.native.v, "type"), Null)
           /\ c.native.k = "error" =>
                  /\ c.state = "rejected"
                  /\ c.value.t = "ScriptError"
                  /\ c.value.message = c.native.v.message
           /\ c.native.k = "pending" => c.state = "pending"

\* One request was answered 403 with a message and a type and was rejected
\* with both; another one met a transport failure.
C6_Witness ==
    \E i, j \in 1..Len(nreq) :
        /\ nreq[i].native.k = "response"
        /\ nreq[i].native.v.code = 403
        /\ nreq[i].state = "rejected"
        /\ nreq[i].value.message = Str("denied")
        /\ nreq[i].value.type = Str("auth")
        /\ nreq[j].native.k = "error"
        /\ nreq[j].state = "rejected"
        /\ nreq[j].value.message = Str("Native host has exited")

----------------------------------------------------------------------------
(* DownloadService *)

\* The directory the background script configures the service with
DirDownloads == Str("nmind/downloads/")

\* DownloadService.configure(dirDownloads)
ConfigureDownload(dir) ==
    /\ dirDownloads' = dir
    /\ UNCHANGED hostClient

\* dirDownloads + filename: the string a directory value is converted to
\* (DownloadService.js concatenates whatever the value is)
DirString(v) ==
    CASE v.t = "string" -> v.s
      [] v.t = "null" -> "null"
      [] OTHER -> "undefined"

\* What createJob rejects with while the service has no directory
NotConfigured ==
    [code |-> 500,
     message |-> Str("DownloadService not configured (dirDownloads is null)")]

\* Keys _sanitizeJobProperties keeps
AllowedKeys ==
    {"body", "conflictAction", "filename", "headers", "incognito", "method",
     "saveAs", "url"}

\* The callback the background script sets on a job before createJob
OnFinishCb == [t |-> "function", id |-> "onFinish"]

\* Job objects of companion.document.download and companion.document.print
DownloadJobs ==
    {[url |-> Str("https://the.urlto.use"), filename |-> Str("dlfile.pdf"),
      method |-> Str("POST"), saveAs |-> Bool(FALSE), id |-> Num(5),
      name |-> Str("doc"), onFinish |-> OnFinishCb],
     [url |-> Str("https://the.urlto.use"), filename |-> Str("dlfile.pdf"),
      method |-> Str("POST"), saveAs |-> Bool(FALSE), id |-> Num(5),
      name |-> Str("doc"), printerName |-> Str("PDF"), onFinish |-> OnFinishCb]}

\* What browser.downloads.download rejects with
DownloadErrors == {ErrorObj("Invalid url")}

\* The item of a created event
Items ==
    [id : DownloadIds, filename : {Str("/dl/a.pdf")},
     fileSize : {Num(-1), Num(0)}, totalBytes : {Num(-1)}]

\* A changed property of a delta, and the deltas of a changed event: every
\* property is either absent or carries its current value
Cur(v) == [t |-> "object", current |-> v]
Deltas ==
    [error : {Undef, Cur(Str("NETWORK_FAILED"))},
     filename : {Undef, Cur(Str("/dl/b.pdf"))},
     fileSize : {Undef, Cur(Num(0)), Cur(Num(5))},
     totalBytes : {Undef, Cur(Num(5))},
     exists : {Undef, Cur(Bool(TRUE))},
     state : {Undef, Cur(Str("in_progress")), Cur(Str("interrupted")),
              Cur(Str("complete"))}]
    \ {[error |-> Undef, filename |-> Undef, fileSize |-> Undef,
        totalBytes |-> Undef, exists |-> Undef, state |-> Undef]}

\* DownloadService._sanitizeJobProperties, were no key deleted
SanitizeKeepsAll(job) == job

\* DownloadService._sanitizeJobProperties
SanitizeJobProperties(job) == [k \in DOMAIN job \cap AllowedKeys |-> job[k]]

\* DownloadService._createReponse
CreateResponse(job) ==
    [t |-> "DownloadJobResponse", id |-> Get(job, "id"), name |-> Get(job, "name"),
     destination |-> Str(""), reason |-> Str(""), success |-> Bool(FALSE),
     downloading |-> Bool(FALSE)]

\* The smallest download id the browser has not assigned
FreeIds == {i \in DownloadIds : dl[i].origin = "none"}
NextId == CHOOSE i \in FreeIds : \A j \in FreeIds : i <= j

\* DownloadService.createJob(port, job), up to the browser's download call;
\* the browser starts a download under a new id, or will refuse the job
CreateJob(port, job, accept) ==
    IF ~Truthy(dirDownloads) /\ build = "ts"
    THEN \* DownloadService.ts: the promise is rejected with NotConfigured and
         \* the browser is not called
         UNCHANGED <<dl, jobs, dcalls, removed, erased, finished, dfault>>
    ELSE
    LET prefixed == [job EXCEPT !.filename = Str(DirString(dirDownloads) \o job.filename.s)]
        id == IF accept THEN NextId ELSE 0
        call == [handed |-> SanitizeJobProperties(prefixed),
                 response |-> CreateResponse(prefixed),
                 onFinish |-> Get(job, "onFinish"), port |-> port,
                 dir |-> dirDownloads,
                 id |-> id, promise |-> "pending", value |-> Undef]
    IN /\ Len(dcalls) < MaxDownloads
       /\ accept => FreeIds # {}
       /\ dcalls' = Append(dcalls, call)
       /\ dl' = IF accept
                THEN [dl EXCEPT ![id] = [origin |-> "service", state |-> "in_progress",
                                         created |-> FALSE]]
                ELSE dl
       /\ UNCHANGED <<jobs, removed, erased, finished, dfault>>

\* createJob: the callback for the fulfilment of the browser's download call
Started(k) ==
    LET c == dcalls[k]
        r == [c.response EXCEPT !.downloading = Bool(TRUE)]
    IN /\ c.promise = "pending"
       /\ c.id # 0
       /\ jobs' = [jobs EXCEPT ![c.id] =
              IF Truthy(jobs[c.id])
              THEN [jobs[c.id] EXCEPT !.response = r, !.port = c.port,
                                      !.id = Num(c.id), !.onFinish = c.onFinish]
              ELSE [t |-> "job", port |-> c.port, response |-> r,
                    onFinish |-> c.onFinish, id |-> Num(c.id),
                    filename |-> Str(""), fileSize |-> Num(0),
                    totalBytes |-> Num(0), exists |-> Undef]]
       /\ dcalls' = [dcalls EXCEPT ![k].promise = "fulfilled", ![k].value = r]
       /\ UNCHANGED <<dl, removed, erased, finished, dfault>>

\* createJob: the callback for the rejection of the browser's download call
Refused(k, error) ==
    LET c == dcalls[k]
        r == [c.response EXCEPT !.downloading = Bool(FALSE),
                                !.success = Bool(FALSE), !.reason = error]
    IN /\ c.promise = "pending"
       /\ c.id = 0
       /\ dcalls' = [dcalls EXCEPT ![k].promise = "rejected", ![k].value = r]
       /\ UNCHANGED <<dl, jobs, removed, erased, finished, dfault>>

\* A download starts elsewhere in the browser
ForeignStart ==
    /\ FreeIds # {}
    /\ dl' = [dl EXCEPT ![NextId] = [origin |-> "foreign", state |-> "in_progress",
                                     created |-> FALSE]]
    /\ UNCHANGED <<jobs, dcalls, removed, erased, finished, dfault>>

\* DownloadService._onCreatedListener: the entry it leaves and whether it
\* raised a TypeError
OnCreated(job, item) ==
    IF Truthy(job)
    THEN LET j == [job EXCEPT !.filename = item.filename, !.fileSize = item.fileSize,
                              !.totalBytes = item.totalBytes]
         IN IF j.response \in {Null, Undef}
            THEN [job |-> j, fault |-> TRUE]
            ELSE [job |-> [j EXCEPT !.response.destination = item.filename],
                  fault |-> FALSE]
    ELSE [job |-> [t |-> "job", port |-> Null, response |-> Null, onFinish |-> Null,
                   id |-> Num(item.id), filename |-> item.filename,
                   fileSize |-> item.fileSize, totalBytes |-> item.totalBytes,
                   exists |-> Undef],
          fault |-> FALSE]

\* The browser delivers the created event of a download
Created(item) ==
    LET id == item.id
        r == OnCreated(jobs[id], item)
    IN /\ dl[id].origin # "none"
       /\ ~dl[id].created
       /\ dl' = [dl EXCEPT ![id].created = TRUE]
       /\ jobs' = [jobs EXCEPT ![id] = r.job]
       /\ dfault' = r.fault
       /\ UNCHANGED <<dcalls, removed, erased, finished>>

\* The effects of a listener call on one download id: the entry, the
\* onFinish invocations, the removeFile and erase calls, a TypeError raised
Effects(job) == [job |-> job, fin |-> <<>>, rm |-> 0, er |-> 0, fault |-> FALSE]
Fault(s) == [s EXCEPT !.fault = TRUE]

\* DownloadService._notifyDownloadJob
NotifyDownloadJob(s, success, reason) ==
    IF Truthy(s.job.response) /\ Truthy(s.job.onFinish)
    THEN LET r == [s.job.response EXCEPT !.downloading = Bool(FALSE),
                                         !.success = Bool(success),
                                         !.reason = OrElse(reason, Str("")),
                                         !.destination = s.job.filename]
         IN [s EXCEPT !.job.response = r,
                      !.fin = Append(@, [port |-> s.job.port, response |-> r])]
    ELSE s

\* DownloadService._cleanupJob
CleanupJob(s, removeFile) ==
    [s EXCEPT !.job = Undef,
              !.rm = IF removeFile THEN @ + 1 ELSE @,
              !.er = IF removeFile THEN @ + 1 ELSE @]

\* _onChangedListener: if (delta.error)
OnError(s, d) ==
    IF Truthy(d.error)
    THEN CleanupJob(NotifyDownloadJob(s, FALSE, d.error.current), TRUE)
    ELSE s

\* _onChangedListener: if (delta.filename)
OnFilename(s, d) ==
    IF s.fault \/ ~Truthy(d.filename) THEN s
    ELSE IF s.job = Undef THEN Fault(s)
    ELSE LET s1 == [s EXCEPT !.job.filename = d.filename.current]
         IN IF s1.job.response \in {Null, Undef}
            THEN Fault(s1)
            ELSE [s1 EXCEPT !.job.response.destination = d.filename.current]

\* _onChangedListener: if (delta.fileSize), if (delta.totalBytes), if (delta.exists)
OnField(s, d, f) ==
    IF s.fault \/ ~Truthy(d[f]) THEN s
    ELSE IF s.job = Undef THEN Fault(s)
    ELSE [s EXCEPT !.job[f] = d[f].current]

\* _onChangedListener: if (delta.state)
OnState(s, d) ==
    IF s.fault \/ ~Truthy(d.state) THEN s
    ELSE IF d.state.current = Str("complete")
    THEN IF s.job = Undef THEN Fault(s)
         ELSE IF s.job.fileSize = Num(0)
         THEN CleanupJob(NotifyDownloadJob(s, FALSE, Str("Empty content")), TRUE)
         ELSE CleanupJob(NotifyDownloadJob(s, TRUE, Undef), FALSE)
    ELSE s

\* DownloadService._onChangedListener
OnChanged(job, d) ==
    IF job = Undef
    THEN Effects(job)
    ELSE OnState(
             OnField(
                 OnField(
                     OnField(OnFilename(OnError(Effects(job), d), d), d, "fileSize"),
                     d, "totalBytes"),
                 d, "exists"),
             d)

\* The state of a download in the browser after a changed event
StateAfter(d) ==
    IF Truthy(d.error) THEN "failed"
    ELSE IF Truthy(d.state) /\ d.state.current = Str("complete") THEN "complete"
    ELSE "in_progress"

\* The browser delivers a changed event of a download that has not ended
Changed(id, d) ==
    LET s == OnChanged(jobs[id], d)
    IN /\ dl[id].created
       /\ dl[id].state = "in_progress"
       /\ dl' = [dl EXCEPT ![id].state = StateAfter(d)]
       /\ jobs' = [jobs EXCEPT ![id] = s.job]
       /\ finished' = [finished EXCEPT ![id] = @ \o s.fin]
       /\ removed' = [removed EXCEPT ![id] = @ + s.rm]
       /\ erased' = [erased EXCEPT ![id] = @ + s.er]
       /\ dfault' = s.fault
       /\ UNCHANGED dcalls

DoCreateJob ==
    \E job \in DownloadJobs, accept \in BOOLEAN : CreateJob(ThePort, job, accept)
DoConfigureDownload == ConfigureDownload(DirDownloads)
DoStarted == \E k \in 1..Len(dcalls) : Started(k)
DoRefused == \E k \in 1..Len(dcalls), e \in DownloadErrors : Refused(k, e)
DoCreated == \E item \in Items : Created(item)
DoChanged == \E id \in DownloadIds, d \in Deltas : Changed(id, d)

\* The changed events of the runs that take the download service together
\* with the printer service: the listener treats totalBytes and exists as it
\* treats fileSize, and they are left out there
JobDeltas == {d \in Deltas : d.totalBytes = Undef /\ d.exists = Undef}
DoJobChanged == \E id \in DownloadIds, d \in JobDeltas : Changed(id, d)

----------------------------------------------------------------------------
(* PrinterService *)

\* What a completion callback does when it is invoked: it returns, or it
\* throws at its first invocation only, or it throws at every invocation
ThrowingCb(does) == [t |-> "function", id |-> "onFinish", does |-> does]
PrintCallbacks == {OnFinishCb, ThrowingCb("throwsOnce"), ThrowingCb("throws")}
CallbackDoes(cb) == IF "does" \in DOMAIN cb THEN cb.does ELSE "returns"
CallbackError == ErrorObj("callback failed")

\* The native host client the background script configures the service with
TheHostClient == [t |-> "NativeHostClient"]

\* PrinterService.configure(dirPrinters, hostClient); dirPrinters is stored
\* and read nowhere, so it is no part of the state
ConfigurePrinter(dir, client) ==
    /\ hostClient' = client
    /\ UNCHANGED dirDownloads

\* The background script configures both services when it is loaded
LoadedServices == dirDownloads = DirDownloads /\ hostClient = TheHostClient

\* What a job is finished with while the service has no host client, in
\* PrinterService.ts; the TypeError that leaves createJob in the JavaScript
\* service
RequestOfNull ==
    TypeErrorObj("Cannot read properties of null (reading 'request')")
PrinterNotConfigured == Str("PrinterService not configured (hostClient is null)")

\* Print jobs the background script builds from a finished download; the
\* printer name may be missing
PrintJobs ==
    [t : {"PrintJob"}, id : {Num(5)}, name : {Str("doc")},
     filename : {Str(f) : f \in PrintFiles}, reason : {Str("")},
     success : {Bool(FALSE)}, printing : {Bool(FALSE)},
     printerName : {Undef, Str(""), Str("PDF")}, onFinish : PrintCallbacks]

\* What the native request of a print job settles with
PrintFulfilments == {[t |-> "object", code |-> 200, content |-> Bool(TRUE)]}
PrintRejections == {Message_error(Str("Printer not found"), Str("printer"))}

\* PrinterService.createJob: whether the job names a printer
HasPrinterNameAlways(job) == TRUE

HasPrinterName(job) == Truthy(Get(job, "printerName"))

\* PrinterService.createJob(port, job), up to the native request
PrintCreateJob(port, job) ==
    LET k == Len(pcalls) + 1
        id == job.filename.s
        stored == [x \in (DOMAIN job \ {"onFinish"}) \cup {"call"} |->
                       IF x = "call" THEN k ELSE job[x]]
    IN /\ Len(pcalls) < MaxPrints
       /\ IF ~HasPrinterName(job)
          THEN /\ pcalls' = Append(pcalls, [id |-> id, port |-> port,
                                            onFinish |-> job.onFinish,
                                            printerName |-> job.printerName,
                                            request |-> Undef, state |-> "ignored",
                                            native |-> "none", error |-> Undef,
                                            ret |-> Undef])
               /\ UNCHANGED <<pjobs, pdone>>
          ELSE IF ~Truthy(hostClient) /\ build = "js"
          THEN \* the JavaScript service calls request on the null client: the
               \* job is stored and the TypeError leaves createJob
               /\ pcalls' = Append(pcalls,
                     [id |-> id, port |-> port, onFinish |-> job.onFinish,
                      printerName |-> job.printerName,
                      request |-> Undef, state |-> "unconfigured",
                      native |-> "none", error |-> Undef,
                      ret |-> Thrown(RequestOfNull)])
               /\ pjobs' = [pjobs EXCEPT ![id] = stored]
               /\ UNCHANGED pdone
          ELSE IF ~Truthy(hostClient)
          THEN LET failed == [stored EXCEPT !.success = Bool(FALSE),
                                            !.reason = PrinterNotConfigured]
                   thrown == CallbackDoes(job.onFinish) # "returns"
               IN /\ pcalls' = Append(pcalls,
                        [id |-> id, port |-> port, onFinish |-> job.onFinish,
                         printerName |-> job.printerName,
                         request |-> Undef, state |-> "unconfigured",
                         native |-> "none", error |-> Undef,
                         ret |-> IF thrown THEN Thrown(CallbackError) ELSE Undef])
                  /\ pdone' = Append(pdone, [by |-> k, port |-> port, job |-> failed])
                  /\ pjobs' = [pjobs EXCEPT ![id] = IF thrown THEN failed ELSE Undef]
          ELSE /\ pcalls' = Append(pcalls,
                     [id |-> id, port |-> port, onFinish |-> job.onFinish,
                      printerName |-> job.printerName,
                      request |-> [route |-> "companion.document.print",
                                   printerName |-> job.printerName,
                                   path |-> job.filename],
                      state |-> "pending", native |-> "pending",
                      error |-> Undef, ret |-> Undef])
               /\ pjobs' = [pjobs EXCEPT ![id] = stored]
               /\ UNCHANGED pdone

\* createJob chains two callbacks on the native request, .then(A).catch(B).
\* Each runs as a microtask of its own, and each reads this.jobs[id] when it
\* runs: the entry is that of the last createJob call for the file, or none.

\* The then-callback A, run when the native request is fulfilled: the entry
\* it leaves, the onFinish invocations it makes, and the error it throws
\* (assigning success on a missing entry, or thrown by onFinish, which skips
\* the delete)
OnPrintFulfilled(entry, onFinish) ==
    IF entry = Undef
    THEN [entry |-> Undef, fin |-> <<>>,
          error |-> TypeErrorObj("Cannot set properties of undefined (setting 'success')")]
    ELSE LET done == [entry EXCEPT !.success = Bool(TRUE)]
         IN IF CallbackDoes(onFinish) = "returns"
            THEN [entry |-> Undef, fin |-> <<done>>, error |-> Undef]
            ELSE [entry |-> done, fin |-> <<done>>, error |-> CallbackError]

\* The catch-callback B, run when the promise that then() returned is
\* rejected with error: because the native request was rejected, or because
\* A threw
OnPrintRejected(entry, error, onFinish, first) ==
    IF entry = Undef
    THEN [entry |-> Undef, fin |-> <<>>,
          error |-> TypeErrorObj("Cannot set properties of undefined (setting 'success')")]
    ELSE LET failed == [entry EXCEPT !.success = Bool(FALSE), !.reason = error]
             throws == \/ CallbackDoes(onFinish) = "throws"
                       \/ CallbackDoes(onFinish) = "throwsOnce" /\ first
         IN IF throws
            THEN [entry |-> failed, fin |-> <<failed>>, error |-> CallbackError]
            ELSE [entry |-> Undef, fin |-> <<failed>>, error |-> Undef]

\* The onFinish invocations of call k, as records of pdone
Finished(k, fin) ==
    [i \in 1..Len(fin) |-> [by |-> k, port |-> pcalls[k].port, job |-> fin[i]]]

\* The native request of call k is fulfilled and the then-callback runs
PrintFulfilled(k, v) ==
    LET c == pcalls[k]
        r == OnPrintFulfilled(pjobs[c.id], c.onFinish)
    IN /\ c.state = "pending"
       /\ pcalls' = [pcalls EXCEPT ![k].native = "fulfilled", ![k].error = r.error,
                                   ![k].state = IF r.error = Undef THEN "settled"
                                                ELSE "rejected"]
       /\ pdone' = pdone \o Finished(k, r.fin)
       /\ pjobs' = [pjobs EXCEPT ![c.id] = r.entry]

\* The native request of call k is rejected with v: then() has no callback
\* for a rejection and hands it on to the promise it returned
PrintRejected(k, v) ==
    /\ pcalls[k].state = "pending"
    /\ pcalls' = [pcalls EXCEPT ![k].native = "rejected", ![k].error = v,
                                ![k].state = "rejected"]
    /\ UNCHANGED <<pjobs, pdone>>

\* The catch-callback of call k runs
PrintCaught(k) ==
    LET c == pcalls[k]
        r == OnPrintRejected(pjobs[c.id], c.error, c.onFinish,
                             \A i \in 1..Len(pdone) : pdone[i].by # k)
    IN /\ c.state = "rejected"
       /\ pcalls' = [pcalls EXCEPT ![k].state = "settled", ![k].error = r.error]
       /\ pdone' = pdone \o Finished(k, r.fin)
       /\ pjobs' = [pjobs EXCEPT ![c.id] = r.entry]

DoPrintCreateJob == \E job \in PrintJobs : PrintCreateJob(ThePort, job)
DoConfigurePrinter == ConfigurePrinter(Str("nmind/printjobs/"), TheHostClient)
DoPrintFulfilled == \E k \in 1..Len(pcalls), v \in PrintFulfilments : PrintFulfilled(k, v)
DoPrintRejected == \E k \in 1..Len(pcalls), v \in PrintRejections : PrintRejected(k, v)
DoPrintCaught == \E k \in 1..Len(pcalls) : PrintCaught(k)

----------------------------------------------------------------------------
(* The download service and the printer service, driven by the browser *)

InitJobs == InitEndpoint("BackgroundListener") /\ InitNative /\ InitDownload /\ InitPrint /\ InitExt
NextJobs ==
    \/ DoCreateJob /\ UNCHANGED <<routeVars, nativeVars, prVars, extVars>>
    \/ DoStarted /\ UNCHANGED <<routeVars, nativeVars, prVars, extVars>>
    \/ DoRefused /\ UNCHANGED <<routeVars, nativeVars, prVars, extVars>>
    \/ ForeignStart /\ UNCHANGED <<routeVars, nativeVars, prVars, extVars>>
    \/ DoCreated /\ UNCHANGED <<routeVars, nativeVars, prVars, extVars>>
    \/ DoJobChanged /\ UNCHANGED <<routeVars, nativeVars, prVars, extVars>>
    \/ (\E job \in {j \in PrintJobs : /\ j.filename = Str("/dl/a.pdf")
                                        /\ j.printerName # Undef
                                        /\ CallbackDoes(j.onFinish) # "throwsOnce"} :
            PrintCreateJob(ThePort, job))
           /\ UNCHANGED <<routeVars, nativeVars, dlVars, extVars>>
    \/ DoPrintFulfilled /\ UNCHANGED <<routeVars, nativeVars, dlVars, extVars>>
    \/ DoPrintRejected /\ UNCHANGED <<routeVars, nativeVars, dlVars, extVars>>
    \/ DoPrintCaught /\ UNCHANGED <<routeVars, nativeVars, dlVars, extVars>>

\* Both services as the background script holds them, configured at load;
\* once configured, the JavaScript services and the TypeScript services do
\* the same, and the JavaScript ones are taken
InitLoadedJobs ==
    /\ InitEndpoint("BackgroundListener") /\ InitNative /\ InitDownload /\ InitPrint
    /\ InitConnection /\ InitApp /\ InitNodes /\ InitJoin /\ LoadedServices
    /\ build = "js"

SpecJobs == InitLoadedJobs /\ [][NextJobs]_vars

\* The download service alone
NextDownload ==
    \/ DoCreateJob /\ UNCHANGED <<routeVars, nativeVars, prVars, extVars>>
    \/ DoStarted /\ UNCHANGED <<routeVars, nativeVars, prVars, extVars>>
    \/ DoRefused /\ UNCHANGED <<routeVars, nativeVars, prVars, extVars>>
    \/ ForeignStart /\ UNCHANGED <<routeVars, nativeVars, prVars, extVars>>
    \/ DoCreated /\ UNCHANGED <<routeVars, nativeVars, prVars, extVars>>
    \/ DoChanged /\ UNCHANGED <<routeVars, nativeVars, prVars, extVars>>
    \/ DoConfigureDownload
           /\ UNCHANGED <<routeVars, nativeVars, dlVars, prVars, connVars, appVars, pageVars, joinVars>>

SpecDownload == InitJobs /\ [][NextDownload]_vars

----------------------------------------------------------------------------
(* Claims about the download and print jobs *)

\* What a changed event reports, and the file size on record when the
\* listener reaches the state of the delta
ReportsError(d) == Truthy(d.error)
ReportsComplete(d) ==
    ~Truthy(d.error) /\ Truthy(d.state) /\ d.state.current = Str("complete")
RecordedSize(job, d) ==
    IF Truthy(d.fileSize) THEN d.fileSize.current ELSE job.fileSize
LastOf(seq) == seq[Len(seq)]

\* C8: for a download started through createJob, a changed event that
\* reports state complete while the file size on record is 0 finishes the job
\* as a failure: the completion callback is invoked with success = false and
\* reason "Empty content", and removeFile and erase are called for its id.
C8_EmptyContentFails ==
    [][\A id \in DownloadIds, d \in Deltas :
           (/\ ReportsComplete(d)
            /\ dl[id].origin = "service"
            /\ jobs[id] # Undef
            /\ RecordedSize(jobs[id], d) = Num(0)
            /\ Changed(id, d))
           => /\ Len(finished'[id]) = Len(finished[id]) + 1
              /\ LastOf(finished'[id]).response.success = Bool(FALSE)
              /\ LastOf(finished'[id]).response.reason = Str("Empty content")
              /\ removed'[id] = removed[id] + 1
              /\ erased'[id] = erased[id] + 1]_vars

\* C9: when a tracked download ends in failure (a changed event with an
\* error, or one reporting complete with a file size of 0 on record) the
\* service calls removeFile and erase for its id; when it ends in success
\* (complete with another size) the service deletes the registry entry and
\* calls neither removeFile nor erase.
C9_CleanupByOutcome ==
    [][\A id \in DownloadIds, d \in Deltas :
           (/\ ReportsError(d) \/ ReportsComplete(d)
            /\ jobs[id] # Undef
            /\ Changed(id, d))
           => /\ (ReportsError(d)
                  \/ (ReportsComplete(d) /\ RecordedSize(jobs[id], d) = Num(0)))
                 => /\ removed'[id] = removed[id] + 1
                    /\ erased'[id] = erased[id] + 1
              /\ (ReportsComplete(d) /\ RecordedSize(jobs[id], d) # Num(0))
                 => /\ jobs'[id] = Undef
                    /\ removed'[id] = removed[id]
                    /\ erased'[id] = erased[id]]_vars

\* C10: at every point, the download registry holds no entry for a download
\* that has reached a terminal state (complete, or failed with an error), and
\* the print registry holds no entry for a print job whose native request has
\* settled.
C10_NoEntryAfterEnd ==
    /\ \A id \in DownloadIds :
           dl[id].state \in {"complete", "failed"} => jobs[id] = Undef
    /\ \A k \in 1..Len(pcalls) :
           pcalls[k].state = "settled" =>
               \A f \in PrintFiles : pjobs[f] # Undef => pjobs[f].call # k

----------------------------------------------------------------------------
(* NativeHostClient: the native port *)

\* A port as connectNative returns it: open, no listener attached
NewPort ==
    [state |-> "open", by |-> "none", event |-> "none",
     onMessage |-> 0, onDisconnect |-> 0]

\* NativeHostClient.isConnected
IsConnected(port) == port # 0

\* NativeHostClient.connect: the port held and the ports of the browser
ConnectNoDisconnectListener(port, ports) ==
    IF ~IsConnected(port)
    THEN [port |-> Len(ports) + 1,
          ports |-> Append(ports, [NewPort EXCEPT !.onMessage = @ + 1])]
    ELSE [port |-> port, ports |-> ports]

Connect(port, ports) ==
    IF ~IsConnected(port)
    THEN [port |-> Len(ports) + 1,
          ports |-> Append(ports, [NewPort EXCEPT !.onMessage = @ + 1,
                                                  !.onDisconnect = @ + 1])]
    ELSE [port |-> port, ports |-> ports]

\* NativeHostClient.disconnect
Disconnect(port, ports) ==
    IF IsConnected(port)
    THEN [port |-> 0,
          ports |-> [ports EXCEPT ![port].state = "closed",
                                  ![port].by = IF @ = "none" THEN "local" ELSE @]]
    ELSE [port |-> port, ports |-> ports]

\* NativeHostClient.handleDisconnect
HandleDisconnect(port) == 0

\* A call of connect()
DoConnect ==
    LET r == Connect(nport, nports)
    IN /\ IsConnected(nport) \/ Len(nports) < MaxPorts
       /\ nport' = r.port
       /\ nports' = r.ports
       /\ nlast' = [op |-> "connect", before |-> nport, known |-> Len(nports),
                    ret |-> IsConnected(r.port)]

\* A call of disconnect()
DoDisconnect ==
    LET r == Disconnect(nport, nports)
    IN /\ nport' = r.port
       /\ nports' = r.ports
       /\ nlast' = [op |-> "disconnect", before |-> nport, known |-> Len(nports),
                    ret |-> ~IsConnected(r.port)]

\* The native host exits, or cannot be started: the browser closes the port
\* and queues its disconnect event
HostExit(p) ==
    /\ nports[p].state = "open"
    /\ nports' = [nports EXCEPT ![p].state = "closed", ![p].by = "remote",
                                ![p].event = "queued"]
    /\ UNCHANGED <<nport, nlast>>

\* The browser delivers the disconnect event of a port to its listeners
PortDisconnected(p) ==
    /\ nports[p].event = "queued"
    /\ nports' = [nports EXCEPT ![p].event = "delivered"]
    /\ IF nports[p].onDisconnect > 0
       THEN /\ nport' = HandleDisconnect(p)
            /\ nlast' = [op |-> "handleDisconnect", before |-> nport,
                         known |-> Len(nports), ret |-> FALSE]
       ELSE UNCHANGED <<nport, nlast>>

NextConnection ==
    \/ DoConnect /\ UNCHANGED <<routeVars, nativeVars, svcVars, dlVars, prVars, appVars, pageVars, joinVars>>
    \/ DoDisconnect /\ UNCHANGED <<routeVars, nativeVars, svcVars, dlVars, prVars, appVars, pageVars, joinVars>>
    \/ (\E p \in 1..Len(nports) : HostExit(p))
           /\ UNCHANGED <<routeVars, nativeVars, svcVars, dlVars, prVars, appVars, pageVars, joinVars>>
    \/ (\E p \in 1..Len(nports) : PortDisconnected(p))
           /\ UNCHANGED <<routeVars, nativeVars, svcVars, dlVars, prVars, appVars, pageVars, joinVars>>

SpecConnection == InitNativeClient /\ [][NextConnection]_vars

\* C11: isConnected() is false after disconnect() and after the disconnect
\* event of the native port; after a following connect() it is true and the
\* client holds a port that connect() has just opened, with exactly one
\* message listener and one disconnect listener attached.
C11_ConnectionState ==
    /\ nlast.op = "disconnect" => (~IsConnected(nport) /\ nlast.ret)
    /\ nlast.op = "handleDisconnect" => ~IsConnected(nport)
    /\ nlast.op = "connect" =>
           /\ IsConnected(nport)
           /\ nlast.ret
           /\ ~IsConnected(nlast.before) =>
                  /\ nport = nlast.known + 1
                  /\ nport = Len(nports)
                  /\ nports[nport].by # "local"
                  /\ nports[nport].onMessage = 1
                  /\ nports[nport].onDisconnect = 1

\* A second port is held after the first one was lost to a disconnect event
C11_Witness ==
    /\ nlast.op = "connect"
    /\ nlast.before = 0
    /\ nport = 2
    /\ nports[1].event = "delivered"
    /\ nports[2].state = "open"
    /\ nports[2].onDisconnect = 1

----------------------------------------------------------------------------
(* Claims about the printer service *)

NextPrint ==
    \/ DoPrintCreateJob /\ UNCHANGED <<routeVars, nativeVars, dlVars, extVars>>
    \/ DoPrintFulfilled /\ UNCHANGED <<routeVars, nativeVars, dlVars, extVars>>
    \/ DoPrintRejected /\ UNCHANGED <<routeVars, nativeVars, dlVars, extVars>>
    \/ DoPrintCaught /\ UNCHANGED <<routeVars, nativeVars, dlVars, extVars>>
    \/ DoConfigurePrinter
           /\ UNCHANGED <<routeVars, nativeVars, dlVars, prVars, connVars, appVars, pageVars, joinVars>>

SpecPrint == InitJobs /\ [][NextPrint]_vars

\* C12: a job stored in the print registry carries no completion callback,
\* and for every print job that createJob dispatched to the native host the
\* success flag handed to the completion callback is true when the native
\* print request of the call was fulfilled and false when it was rejected,
\* whatever else happens.
C12_PrintOutcome ==
    /\ \A f \in PrintFiles :
           pjobs[f] # Undef => "onFinish" \notin DOMAIN pjobs[f]
    /\ \A i \in 1..Len(pdone) :
           LET c == pcalls[pdone[i].by]
           IN c.request # Undef =>
                  /\ c.native \in {"fulfilled", "rejected"}
                  /\ "onFinish" \notin DOMAIN pdone[i].job
                  /\ pdone[i].job.success = Bool(c.native = "fulfilled")

\* C13: a print job submitted without a printer name makes no native
\* request, stores nothing in the registry, never has its completion callback
\* invoked, and createJob returns undefined.
C13_NoPrinterNameDropped ==
    \A k \in 1..Len(pcalls) :
        ~Truthy(pcalls[k].printerName) =>
            /\ pcalls[k].request = Undef
            /\ pcalls[k].native = "none"
            /\ pcalls[k].ret = Undef
            /\ \A f \in PrintFiles : pjobs[f] # Undef => pjobs[f].call # k
            /\ \A i \in 1..Len(pdone) : pdone[i].by # k

\* A job without printer name was submitted while another job of the same
\* file was dispatched and reported
C13_Witness ==
    \E k, n \in 1..Len(pcalls) :
        /\ pcalls[k].printerName = Str("")
        /\ pcalls[k].state = "ignored"
        /\ pcalls[n].id = pcalls[k].id
        /\ pcalls[n].state = "settled"
        /\ Len(pdone) = 1

----------------------------------------------------------------------------
(* The background script: companion.document.download and                  *)
(* companion.document.print, and the port registry of BackgroundListener.  *)
(* The content script pipes companion.* through BackgroundClient.request,  *)
(* so the handlers receive the sender of a runtime message as their port.  *)

Contexts == {"ctx1"}

\* The job objects a page sends: no function crosses the page boundary
PageJobs == {[k \in DOMAIN j \ {"onFinish"} |-> j[k]] : j \in DownloadJobs}

\* job.onFinish = cb
WithOnFinish(job, cb) ==
    [k \in DOMAIN job \cup {"onFinish"} |-> IF k = "onFinish" THEN cb ELSE job[k]]

\* The closures the handlers of request i create
PostDownloadResponse(i) == [t |-> "function", id |-> "postDownloadResponse", req |-> i]
PostPrintResponse(i) == [t |-> "function", id |-> "postPrintResponse", req |-> i]
CreatePrintJobOnFinish(i, printerName) ==
    [t |-> "function", id |-> "createPrintJob", req |-> i, printerName |-> printerName]

\* BackgroundListener.post: the messages it puts on a port
Post(ports, port, message) ==
    IF Truthy(port) /\ Truthy(Get(port, "contextId")) /\ ports[port.contextId.s] # 0
    THEN <<[port |-> ports[port.contextId.s], message |-> message]>>
    ELSE <<>>

\* BackgroundListener.handleConnect and handleDisconnect: the registry after
ListenerHandleConnect(ports, ctx, p) == [ports EXCEPT ![ctx] = p]
ListenerHandleDisconnect(ports, ctx, p) ==
    IF ports[ctx] # 0 THEN [ports EXCEPT ![ctx] = 0] ELSE ports

\* A context opens a runtime port, while fewer than max ports were opened
PortConnectsUpTo(ctx, max) ==
    /\ lconn < max
    /\ lconn' = lconn + 1
    /\ lopen' = lopen \cup {lconn + 1}
    /\ lports' = ListenerHandleConnect(lports, ctx, lconn + 1)
    /\ UNCHANGED <<build, options, areqs, posted>>

\* A context opens a runtime port
PortConnects(ctx) == PortConnectsUpTo(ctx, MaxContextPorts)

\* A runtime port of a context disconnects
PortDisconnects(ctx, p) ==
    /\ p \in lopen
    /\ lopen' = lopen \ {p}
    /\ lports' = ListenerHandleDisconnect(lports, ctx, p)
    /\ UNCHANGED <<build, options, lconn, areqs, posted>>

\* The record of a handled request: what the handler returned, the createJob
\* calls it made, the print jobs its callback created, and the port that was
\* registered for its context
HandledRequest(route, port, params, ret, downloads) ==
    [route |-> route, port |-> port, params |-> params,
     conn |-> lports[port.contextId.s],
     ret |-> ret, promise |-> IF IsPromise(ret) THEN "pending" ELSE "none",
     value |-> Undef, downloads |-> downloads, prints |-> {}, options |-> options]

\* The handler of companion.document.download
DocumentDownload(port, job, accept) ==
    LET i == Len(areqs) + 1
    IN /\ i <= MaxRequests
       /\ CreateJob(port, WithOnFinish(job, PostDownloadResponse(i)), accept)
       /\ areqs' = Append(areqs, HandledRequest("companion.document.download", port,
                                                job, PromiseOf(i), {Len(dcalls) + 1}))
       /\ UNCHANGED <<build, options, lports, lopen, lconn, posted>>

\* The printer name the print handler resolves for a job under the options
\* it reads
PrinterNameFor(job, opts) == OrElse(Get(job, "printerName"), opts.default)

\* The handler of companion.document.print: app.js starts the download, the
\* TypeScript background script returns true without starting it
DocumentPrint(port, dljob, accept) ==
    LET i == Len(areqs) + 1
        printerName == PrinterNameFor(dljob, options)
        refuse(m) ==
            /\ areqs' = Append(areqs, HandledRequest("companion.document.print", port,
                                                     dljob,
                                                     Message_error(Str(m), Undef), {}))
            /\ UNCHANGED dlVars
    IN /\ i <= MaxRequests
       /\ IF ~Truthy(options.activate)
          THEN refuse("Printers support has been disabled")
          ELSE IF ~Truthy(printerName)
          THEN refuse("Printer not defined")
          ELSE IF build = "js"
          THEN /\ CreateJob(port, WithOnFinish(dljob,
                                      CreatePrintJobOnFinish(i, printerName)), accept)
               /\ areqs' = Append(areqs,
                      HandledRequest("companion.document.print", port, dljob,
                                     PromiseOf(i), {Len(dcalls) + 1}))
          ELSE /\ areqs' = Append(areqs,
                      HandledRequest("companion.document.print", port, dljob,
                                     Bool(TRUE), {}))
               /\ UNCHANGED dlVars
       /\ UNCHANGED <<build, options, lports, lopen, lconn, posted>>

\* The request whose handler made createJob call k
RequestOfCall(k) == CHOOSE i \in 1..Len(areqs) : k \in areqs[i].downloads

\* The handlers chain .then and .catch on the promise of createJob: their
\* callbacks run as microtasks of their own, after the callback of the
\* service that settled that promise.  The callback of a handler is queued
\* for call k
HandlerQueued(k) ==
    /\ dcalls[k].promise # "pending"
    /\ areqs[RequestOfCall(k)].promise = "pending"

\* Until the queued callback has run only callbacks of promises run, and no
\* event of the browser is delivered
NoHandlerQueued == \A k \in 1..Len(dcalls) : ~HandlerQueued(k)

\* The handler's then-callback: resolve(Message.success(response))
DocumentStarted(k) ==
    /\ dcalls[k].promise = "fulfilled"
    /\ HandlerQueued(k)
    /\ areqs' = [areqs EXCEPT ![RequestOfCall(k)].promise = "fulfilled",
                              ![RequestOfCall(k)].value =
                                  Message_success(dcalls[k].value)]
    /\ UNCHANGED <<build, options, lports, lopen, lconn, posted>>

\* The handler's catch-callback: reject(Message.error(response))
DocumentRefused(k) ==
    /\ dcalls[k].promise = "rejected"
    /\ HandlerQueued(k)
    /\ areqs' = [areqs EXCEPT ![RequestOfCall(k)].promise = "rejected",
                              ![RequestOfCall(k)].value =
                                  Message_error(dcalls[k].value, Undef)]
    /\ UNCHANGED <<build, options, lports, lopen, lconn, posted>>

\* new PrintJob(response)
PrintJobOf(response) ==
    [t |-> "PrintJob", id |-> response.id, name |-> response.name,
     filename |-> response.destination, reason |-> Str(""),
     success |-> Bool(FALSE), printing |-> Bool(FALSE), printerName |-> Str("")]

\* job.onFinish(port, response) of a download job: the callback of the
\* download handler posts the response, the callback of the print handler
\* creates the print job
DownloadOnFinish(cb, port, response) ==
    IF cb.id = "postDownloadResponse"
    THEN /\ posted' = posted \o Post(lports, port,
                          RequestOf("companion.document.download.response",
                                    response, Undef))
         /\ UNCHANGED <<prVars, areqs>>
    ELSE /\ PrintCreateJob(port,
                WithOnFinish([PrintJobOf(response) EXCEPT !.printerName = cb.printerName],
                             PostPrintResponse(cb.req)))
         /\ areqs' = [areqs EXCEPT ![cb.req].prints = @ \cup {Len(pcalls) + 1}]
         /\ UNCHANGED posted

\* A changed event, with the completion callback the service invokes
DocumentChanged(id, d) ==
    LET s == OnChanged(jobs[id], d)
    IN /\ Changed(id, d)
       /\ IF s.fin = <<>>
          THEN UNCHANGED <<prVars, areqs, posted>>
          ELSE DownloadOnFinish(jobs[id].onFinish, s.fin[1].port, s.fin[1].response)
       /\ UNCHANGED <<build, options, lports, lopen, lconn>>

\* prjob.onFinish(port, job) posts the job on the port
PrintOnFinish(k, fin) ==
    posted' = posted \o
        (IF fin = <<>> THEN <<>>
         ELSE Post(lports, pcalls[k].port,
                   RequestOf("companion.document.print.response", fin[1], Undef)))

\* The native request of a print job is fulfilled: the then-callback of
\* createJob runs and invokes prjob.onFinish
DocumentPrinted(k, v) ==
    /\ PrintFulfilled(k, v)
    /\ PrintOnFinish(k, OnPrintFulfilled(pjobs[pcalls[k].id], pcalls[k].onFinish).fin)
    /\ UNCHANGED <<build, options, lports, lopen, lconn, areqs>>

\* The catch-callback of createJob runs and invokes prjob.onFinish
DocumentPrintFailed(k) ==
    /\ PrintCaught(k)
    /\ PrintOnFinish(k, OnPrintRejected(pjobs[pcalls[k].id], pcalls[k].error,
                                        pcalls[k].onFinish,
                                        \A i \in 1..Len(pdone) : pdone[i].by # k).fin)
    /\ UNCHANGED <<build, options, lports, lopen, lconn, areqs>>

\* What browser.storage.local holds under the key printer: nothing, or the
\* object the options page saved
StoredPrinters ==
    {Undef} \cup [activate : {Bool(FALSE), Bool(TRUE)}, default : {Str(""), Str("PDF")}]

\* Storage.synchronize, called when the background script starts and on every
\* storage.onChanged event of the local area: the callback on
\* browser.storage.local.get() assigns the stored values over the options
StorageSynchronize(stored) ==
    /\ options' = IF stored = Undef THEN options ELSE stored
    /\ UNCHANGED <<build, lports, lopen, lconn, areqs, posted>>

\* The background script starts with the default options
InitBackground ==
    /\ InitEndpoint("BackgroundListener") /\ InitNative /\ InitDownload /\ InitPrint
    /\ InitConnection /\ InitPorts /\ InitRequests /\ InitNodes /\ InitJoin
    /\ LoadedServices
    /\ build \in {"js", "ts"}
    /\ options = DEFAULT_OPTIONS

NextBackground ==
    \/ (\E stored \in StoredPrinters : StorageSynchronize(stored))
           /\ UNCHANGED <<routeVars, nativeVars, svcVars, dlVars, prVars, connVars, pageVars, joinVars>>
    \/ (NoHandlerQueued /\ \E c \in Contexts : PortConnects(c))
           /\ UNCHANGED <<routeVars, nativeVars, svcVars, dlVars, prVars, connVars, pageVars, joinVars>>
    \/ (NoHandlerQueued /\ \E c \in Contexts, p \in 1..MaxContextPorts : PortDisconnects(c, p))
           /\ UNCHANGED <<routeVars, nativeVars, svcVars, dlVars, prVars, connVars, pageVars, joinVars>>
    \/ (NoHandlerQueued /\ \E c \in Contexts, job \in PageJobs, accept \in BOOLEAN :
            DocumentDownload(PortOf(c), job, accept))
           /\ UNCHANGED <<routeVars, nativeVars, svcVars, prVars, connVars, pageVars, joinVars>>
    \/ (NoHandlerQueued /\ \E c \in Contexts, job \in PageJobs, accept \in BOOLEAN :
            DocumentPrint(PortOf(c), job, accept))
           /\ UNCHANGED <<routeVars, nativeVars, svcVars, prVars, connVars, pageVars, joinVars>>
    \/ (DoStarted /\ UNCHANGED appVars)
           /\ UNCHANGED <<routeVars, nativeVars, svcVars, prVars, connVars, pageVars, joinVars>>
    \/ (\E k \in 1..Len(dcalls) : DocumentStarted(k))
           /\ UNCHANGED <<routeVars, nativeVars, svcVars, dlVars, prVars, connVars, pageVars, joinVars>>
    \/ (DoRefused /\ UNCHANGED appVars)
           /\ UNCHANGED <<routeVars, nativeVars, svcVars, prVars, connVars, pageVars, joinVars>>
    \/ (\E k \in 1..Len(dcalls) : DocumentRefused(k))
           /\ UNCHANGED <<routeVars, nativeVars, svcVars, dlVars, prVars, connVars, pageVars, joinVars>>
    \/ (NoHandlerQueued /\ DoCreated /\ UNCHANGED appVars)
           /\ UNCHANGED <<routeVars, nativeVars, svcVars, prVars, connVars, pageVars, joinVars>>
    \/ (NoHandlerQueued /\ \E id \in DownloadIds, d \in JobDeltas : DocumentChanged(id, d))
           /\ UNCHANGED <<routeVars, nativeVars, svcVars, connVars, pageVars, joinVars>>
    \/ (\E k \in 1..Len(pcalls), v \in PrintFulfilments : DocumentPrinted(k, v))
           /\ UNCHANGED <<routeVars, nativeVars, svcVars, dlVars, connVars, pageVars, joinVars>>
    \/ (DoPrintRejected /\ UNCHANGED appVars)
           /\ UNCHANGED <<routeVars, nativeVars, svcVars, dlVars, connVars, pageVars, joinVars>>
    \/ (\E k \in 1..Len(pcalls) : DocumentPrintFailed(k))
           /\ UNCHANGED <<routeVars, nativeVars, svcVars, dlVars, connVars, pageVars, joinVars>>

SpecBackground == InitBackground /\ [][NextBackground]_vars

\* Whether the browser reported the end of the download of a createJob call
DownloadEnded(k) ==
    dcalls[k].id # 0 /\ dl[dcalls[k].id].state \in {"complete", "failed"}

\* C14: when printer support is activated and a printer name is available
\* (on the job or as the configured default), handling a
\* companion.document.print request starts exactly one download job through
\* the download service, and the print job for the downloaded file is
\* created only when that download has finished.
C14_PrintStartsOneDownload ==
    \A i \in 1..Len(areqs) :
        (/\ areqs[i].route = "companion.document.print"
         /\ Truthy(areqs[i].options.activate)
         /\ Truthy(PrinterNameFor(areqs[i].params, areqs[i].options)))
        => /\ Cardinality(areqs[i].downloads) = 1
           /\ areqs[i].prints # {} =>
                  \A k \in areqs[i].downloads : DownloadEnded(k)

\* The posted requests of one route
PostedOf(name) == SelectSeq(posted, LAMBDA m : m.message.name = Str(name))

\* C15: for every download started through the companion.document.download
\* route, once the browser reports that download finished (complete or
\* error), exactly one companion.document.download.response request carrying
\* the job's final success flag is posted to the port registered for the
\* requesting context.
C15_DownloadResponsePosted ==
    \A i \in 1..Len(areqs) :
        (/\ areqs[i].route = "companion.document.download"
         /\ areqs[i].conn # 0
         /\ lports[areqs[i].port.contextId.s] = areqs[i].conn
         /\ \E k \in areqs[i].downloads : DownloadEnded(k))
        => LET msgs == PostedOf("companion.document.download.response")
           IN /\ Len(msgs) = 1
              /\ msgs[1].port = areqs[i].conn
              /\ msgs[1].message.params.success = Bool(TRUE) =>
                     \A k \in areqs[i].downloads :
                         dl[dcalls[k].id].state = "complete"

----------------------------------------------------------------------------
(* The page channel: ExtensionClient writes a request into a text node and *)
(* dispatches io.nmind.request on it; TabListener routes it, writes the    *)
(* response into the node and dispatches io.nmind.response on it.  An      *)
(* exception raised inside an event listener is reported by the browser    *)
(* and does not reach the code that dispatched the event.                  *)

\* JSON.stringify(v) as a value: class tags are lost, properties holding
\* undefined or a function are dropped, undefined array items become null,
\* the properties of an Error are not enumerable
RECURSIVE ToJson(_)
ToJson(v) ==
    CASE v.t \in {"string", "boolean", "number", "null"} -> v
      [] v.t \in {"Error", "TypeError"} -> [t |-> "object"]
      [] v.t = "array" ->
            Arr([i \in 1..Len(v.items) |->
                     IF v.items[i].t \in {"undefined", "function"}
                     THEN Null ELSE ToJson(v.items[i])])
      [] OTHER ->
            [k \in {f \in DOMAIN v :
                       f \in {"t", "code", "delay"}
                       \/ v[f].t \notin {"undefined", "function"}} |->
                 IF k = "t" THEN "object"
                 ELSE IF k \in {"code", "delay"} THEN v[k]
                 ELSE ToJson(v[k])]

\* The text of a node: JSON text of a value, or text that is not JSON
JsonText(v) == [t |-> "text", json |-> TRUE, v |-> v]
EmptyText == [t |-> "text", json |-> FALSE, v |-> Str("")]
BrokenText == [t |-> "text", json |-> FALSE, v |-> Str("{name:")]

\* JSON.stringify: undefined for undefined and for functions
JsonStringify(v) ==
    IF v.t \in {"undefined", "function"} THEN Undef ELSE JsonText(ToJson(v))

\* node.nodeValue = x: null and undefined give the empty string
NodeValueOf(x) == IF x.t \in {"undefined", "null"} THEN EmptyText ELSE x

\* JSON.parse(text): the value, or a SyntaxError
JsonParse(text) ==
    IF text.json THEN [ok |-> TRUE, v |-> text.v] ELSE [ok |-> FALSE, v |-> Undef]

\* JSON.parse(node.nodeValue) in the JavaScript sources,
\* JSON.parse(node.nodeValue || "null") in the TypeScript sources
ParseNodeValue(b, text) ==
    IF b = "ts" /\ text = EmptyText THEN [ok |-> TRUE, v |-> Null] ELSE JsonParse(text)

\* The requests a page sends, after Request.check()
PageRequests ==
    {[RequestOf(n, Str("x"), a) EXCEPT !.silent = s] :
        n \in RouteNames, a \in {Bool(FALSE), Bool(TRUE)},
        s \in {Bool(FALSE), Bool(TRUE)}}

\* A node that is the target of a request event
NodeOf(by, kind, text, req) ==
    [by |-> by, kind |-> kind, asked |-> text, value |-> text,
     attached |-> by = "client", listener |-> by = "client",
     handler |-> IF by # "client" THEN "none"
                 ELSE IF Truthy(req.async) THEN "log" ELSE "promise",
     routed |-> "none", responses |-> 0, extra |-> 0, sent |-> Undef,
     runs |-> 0, errors |-> 0,
     promise |-> IF by = "client" /\ ~Truthy(req.async) THEN "pending" ELSE "none",
     pvalue |-> Undef, settles |-> 0]

\* ExtensionClient._sendPromiseRequest: the handler, called with the parsed
\* response; reading the code of null raises a TypeError
PromiseHandler(node, response) ==
    IF response.t \in {"null", "undefined"}
    THEN [node EXCEPT !.errors = @ + 1]
    ELSE IF node.promise # "pending" THEN node
    ELSE [node EXCEPT !.promise = IF CodeIs200(response) THEN "fulfilled"
                                  ELSE "rejected",
                      !.pvalue = response, !.settles = @ + 1]

\* ExtensionClient._sendRequest: the listener of io.nmind.response on the
\* node; it stays attached
ResponseListener(b, node) ==
    IF ~node.listener THEN node
    ELSE IF b = "js" /\ ~node.attached
    THEN [node EXCEPT !.errors = @ + 1]
    ELSE LET n1 == [node EXCEPT !.attached = FALSE]
             p == ParseNodeValue(b, n1.value)
         IN IF ~p.ok THEN [n1 EXCEPT !.errors = @ + 1]
            ELSE IF n1.handler = "promise"
            THEN PromiseHandler([n1 EXCEPT !.runs = @ + 1], p.v)
            ELSE [n1 EXCEPT !.runs = @ + 1]

\* TabListener.sendResponse
SendResponse(b, node, response) ==
    ResponseListener(b, [node EXCEPT !.value = NodeValueOf(JsonStringify(response)),
                                     !.responses = @ + 1, !.sent = response])

\* TabListener.handleRequest: the catch callback on the routed promise
OnRouteRejectedRaw(error) == error

OnRouteRejected(error) == Message_error(error, Undef)

\* TabListener.handleRequest for a request event on a node; route() raises a
\* TypeError when the parsed value is not an object
TabHandleRequest(b, node, outcome) ==
    IF node.kind # "text" THEN [node EXCEPT !.routed = "ignored"]
    ELSE LET p == ParseNodeValue(b, node.value)
         IN IF ~p.ok \/ p.v.t # "object"
            THEN [node EXCEPT !.routed = "thrown"]
            ELSE LET r == RouteEval(cls, routes, plain, regexp, forwarder,
                                    p.v.name.s, p.v.params, p.v.silent,
                                    Undef, outcome).result
                 IN IF r.t = "throw"
                    THEN [node EXCEPT !.routed = "thrown"]
                    ELSE IF IsPromise(r)
                    THEN [node EXCEPT !.routed = "pending"]
                    ELSE SendResponse(b, [node EXCEPT !.routed = "sync"], r)

\* ExtensionClient.send(request) with no delay: the node is made, attached
\* and the request event dispatched on it
ClientSend(req, outcome) ==
    /\ Len(pnodes) < MaxNodes
    /\ pnodes' = Append(pnodes,
           TabHandleRequest(build,
               NodeOf("client", "text", NodeValueOf(JsonStringify(req)), req),
               outcome))

\* A script of the page dispatches io.nmind.request on a node of its own
PageDispatch(kind, text, outcome) ==
    /\ Len(pnodes) < MaxNodes
    /\ pnodes' = Append(pnodes,
           TabHandleRequest(build, NodeOf("page", kind, text, Undef), outcome))

\* The promise route() returned for the request of node n settles
RouteSettled(n, how, v) ==
    /\ pnodes[n].routed = "pending"
    /\ pnodes' = [pnodes EXCEPT ![n] =
           SendResponse(build, [pnodes[n] EXCEPT !.routed = how],
                        IF how = "fulfilled" THEN v ELSE OnRouteRejected(v))]

\* A second content script of the same page (left by an earlier version of
\* the extension) answers the request of node n as well
SecondResponse(n) ==
    /\ pnodes[n].by = "client"
    /\ pnodes[n].responses > 0
    /\ pnodes[n].extra = 0
    /\ pnodes' = [pnodes EXCEPT ![n] =
           ResponseListener(build, [pnodes[n] EXCEPT !.extra = 1])]

\* The content script's wiring: the listener is joined with the background
\* client, pipes background.* and companion.*, and handles content.ping
InitPage ==
    /\ build \in {"js", "ts"}
    /\ cls = "TabListener"
    /\ routes = [n \in RouteNames |-> IF n = "content.ping" THEN "H1" ELSE NoHandler]
    /\ plain = <<>>
    /\ regexp = <<REBackground, RECompanion>>
    /\ forwarder = "both"
    /\ last = Idle
    /\ InitNative /\ InitDownload /\ InitPrint /\ InitConnection /\ InitServices
    /\ InitPorts /\ InitRequests /\ options = DEFAULT_OPTIONS
    /\ InitNodes /\ InitJoin
    /\ build \in {"js", "ts"}

NextPage ==
    \/ (\E req \in PageRequests, o \in Outcomes : ClientSend(req, o))
           /\ UNCHANGED <<routeVars, nativeVars, svcVars, dlVars, prVars, connVars, appVars, joinVars>>
    \/ (\E kind \in {"text", "element"},
           text \in {JsonText(ToJson(r)) : r \in PageRequests}
                        \cup {EmptyText, BrokenText, JsonText(Str("x"))},
           o \in Outcomes : PageDispatch(kind, text, o))
           /\ UNCHANGED <<routeVars, nativeVars, svcVars, dlVars, prVars, connVars, appVars, joinVars>>
    \/ (\E n \in 1..Len(pnodes), v \in Fulfilments : RouteSettled(n, "fulfilled", v))
           /\ UNCHANGED <<routeVars, nativeVars, svcVars, dlVars, prVars, connVars, appVars, joinVars>>
    \/ (\E n \in 1..Len(pnodes), v \in Rejections : RouteSettled(n, "rejected", v))
           /\ UNCHANGED <<routeVars, nativeVars, svcVars, dlVars, prVars, connVars, appVars, joinVars>>
    \/ (\E n \in 1..Len(pnodes) : SecondResponse(n))
           /\ UNCHANGED <<routeVars, nativeVars, svcVars, dlVars, prVars, connVars, appVars, joinVars>>
    \/ (\E n \in RouteNames : Off(n))
           /\ UNCHANGED <<nativeVars, dlVars, prVars, extVars>>

SpecPage == InitPage /\ [][NextPage]_vars

\* Whether the text a node held when the request event was dispatched is a
\* JSON-serialised request object
HoldsRequest(node) == node.asked.json /\ node.asked.v.t = "object"

\* Whether the response text delivered in a node has code 200
Delivered200(node) == node.value.json /\ CodeIs200(node.value.v)

\* C16, as amended: for every io.nmind.request event whose target is a text
\* node holding a JSON-serialised request, TabListener dispatches exactly one
\* io.nmind.response event on that node: at once when the routed result is
\* synchronous, after fulfilment when it is pending (none while it is
\* pending), and carrying a ScriptError (code 500) response when the pending
\* result rejects.
C16_ResponsePerJsonRequest ==
    \A n \in 1..Len(pnodes) :
        (pnodes[n].kind = "text" /\ HoldsRequest(pnodes[n])) =>
            /\ pnodes[n].routed \in {"sync", "pending", "fulfilled", "rejected"}
            /\ pnodes[n].responses = IF pnodes[n].routed = "pending" THEN 0 ELSE 1
            /\ pnodes[n].routed = "rejected" =>
                   /\ pnodes[n].sent.t = "ScriptError"
                   /\ pnodes[n].sent.code = 500
                   /\ Get(pnodes[n].value.v, "code") = 500

\* One request was answered at once, another one after its pending result
\* was rejected, with a ScriptError response
C16_Witness ==
    \E m, n \in 1..Len(pnodes) :
        /\ pnodes[m].routed = "sync" /\ pnodes[m].responses = 1
        /\ HoldsRequest(pnodes[m])
        /\ pnodes[n].routed = "rejected" /\ pnodes[n].responses = 1
        /\ HoldsRequest(pnodes[n])
        /\ pnodes[n].sent = Message_error(ErrorObj("boom"), Undef)

\* C16, as stated: for every io.nmind.request event whose target is a text
\* node, TabListener dispatches exactly one io.nmind.response event on that
\* node, whatever text the node holds.
C16_ResponsePerTextNode ==
    \A n \in 1..Len(pnodes) :
        pnodes[n].kind = "text" =>
            /\ pnodes[n].routed \in {"sync", "pending", "fulfilled", "rejected"}
            /\ pnodes[n].responses = IF pnodes[n].routed = "pending" THEN 0 ELSE 1

\* C17: the pending result returned by the page client's send() for a
\* non-async request fulfils if and only if the response delivered for that
\* request has code 200 and rejects for every other code; it settles at most
\* once per request.
C17_SettledByCode ==
    \A n \in 1..Len(pnodes) :
        (/\ pnodes[n].by = "client"
         /\ pnodes[n].handler = "promise"
         /\ pnodes[n].responses > 0)
        => /\ pnodes[n].promise = "fulfilled" <=> Delivered200(pnodes[n])
           /\ pnodes[n].promise = "rejected" <=> ~Delivered200(pnodes[n])
           /\ pnodes[n].settles <= 1

\* C18: every text node that the page client attaches to the document for a
\* request is removed from the document when the response event for that
\* request arrives, and the response listener on that node is one-shot: the
\* response handler runs exactly once per request.
C18_NodeRemovedHandlerOnce ==
    \A n \in 1..Len(pnodes) :
        (pnodes[n].by = "client" /\ pnodes[n].responses + pnodes[n].extra > 0)
        => /\ ~pnodes[n].attached
           /\ pnodes[n].runs = 1

----------------------------------------------------------------------------
(* Several endpoints and their forwarder references.  Each endpoint has     *)
(* called pipe(/companion\..+/) and has no handler registered.              *)

Endpoints == 1..MaxEndpoints

\* The class of each endpoint
EndpointClass == <<"TabListener", "BackgroundClient", "Endpoint">>

\* Which of the methods request and post an object has: the endpoint classes,
\* and the empty object
MethodsOf(e) ==
    IF e = 0 THEN "none"
    ELSE IF e = NotJoined THEN "undefined"
    ELSE CASE EndpointClass[e] = "BackgroundClient" -> "both"
           [] EndpointClass[e] = "TabListener" -> "post"
           [] OTHER -> "none"

\* Endpoint.join: the forwarder references after a.join(b)
JoinOneWay(f, a, b) == [f EXCEPT ![a] = b]

JoinEndpoints(f, a, b) == [[f EXCEPT ![a] = b] EXCEPT ![b] = a]

\* a.join(b)
JoinCall(a, b) ==
    /\ fwd' = JoinEndpoints(fwd, a, b)
    /\ flast' = [op |-> "join", on |-> a, to |-> b]

\* a.forwarder = {}
ReplaceForwarder(a) ==
    /\ fwd[a] # 0
    /\ fwd' = [fwd EXCEPT ![a] = 0]
    /\ flast' = [op |-> "replace", on |-> a, to |-> 0]

\* a.forward(name, params): the forwarder method called, and what the call
\* does: what that method does, or return undefined when there is none
ForwardCall(a, name, params, outcome) ==
    LET m == ForwardMethod(MethodsOf(fwd[a]))
    IN /\ flast' = [op |-> "forward", on |-> a, to |-> fwd[a], method |-> m,
                    args |-> <<Str(name), params>>,
                    did |-> IF fwd[a] = NotJoined /\ build = "js"
                            THEN [k |-> "throw", v |-> RequestOfUndefined]
                            ELSE IF m = "none" THEN [k |-> "return", v |-> Undef]
                            ELSE outcome]
       /\ UNCHANGED fwd

\* a.route(request) for a request that resolves through the pipe of a
PipedRoute(a, params, silent, outcome) ==
    LET r == RouteEval(EndpointClass[a], [n \in RouteNames |-> NoHandler], <<>>,
                       <<RECompanion>>, MethodsOf(fwd[a]),
                       "companion.ping", params, silent, Undef, outcome)
    IN /\ flast' = [op |-> "route", on |-> a, to |-> fwd[a],
                    silent |-> Normalize(silent), calls |-> r.calls,
                    did |-> r.did, result |-> r.result]
       /\ UNCHANGED fwd

InitEndpoints ==
    /\ InitEndpoint("Endpoint") /\ InitNative /\ InitDownload /\ InitPrint
    /\ InitConnection /\ InitApp /\ InitNodes /\ InitJoin /\ InitServices

NextJoin ==
    \/ (\E a, b \in Endpoints : JoinCall(a, b))
           /\ UNCHANGED <<routeVars, nativeVars, svcVars, dlVars, prVars, connVars, appVars, pageVars>>
    \/ (\E a \in Endpoints, p \in ParamsSet, o \in Outcomes :
            ForwardCall(a, "companion.ping", p, o))
           /\ UNCHANGED <<routeVars, nativeVars, svcVars, dlVars, prVars, connVars, appVars, pageVars>>
    \/ (\E a \in Endpoints, p \in ParamsSet, s \in SilentSet, o \in Outcomes :
            PipedRoute(a, p, s, o))
           /\ UNCHANGED <<routeVars, nativeVars, svcVars, dlVars, prVars, connVars, appVars, pageVars>>

\* Endpoints that are only ever joined
SpecJoin == InitEndpoints /\ [][NextJoin]_vars

NextForward ==
    \/ NextJoin
    \/ (\E a \in Endpoints : ReplaceForwarder(a))
           /\ UNCHANGED <<routeVars, nativeVars, svcVars, dlVars, prVars, connVars, appVars, pageVars>>

\* Endpoints that are joined, and whose forwarder may be replaced by {}
SpecForward == InitEndpoints /\ [][NextForward]_vars

\* C19, as amended: after a.join(b) each endpoint is the other's forwarder,
\* and a forward() call on an endpoint calls exactly one method of its
\* forwarder when that object has a request or a post method (request when
\* it has one, else post); a forwarder with neither method (a plain Endpoint,
\* or the empty object) is not called and forward() returns undefined.  Once
\* an endpoint's forwarder has been replaced by an empty object, a request
\* that resolves through a pipe calls no forwarder method, the pipe returns
\* undefined without throwing, and route() returns a Success with no content
\* (nothing when the request is silent).
C19_ForwardAfterJoin ==
    /\ flast.op = "join" =>
           fwd[flast.on] = flast.to /\ fwd[flast.to] = flast.on
    /\ flast.op = "forward" =>
           /\ flast.to > 0 /\ EndpointClass[flast.to] = "BackgroundClient" =>
                  flast.method = "request"
           /\ flast.to > 0 /\ EndpointClass[flast.to] = "TabListener" =>
                  flast.method = "post"
           /\ (flast.to = 0 \/ (flast.to > 0 /\ EndpointClass[flast.to] = "Endpoint")) =>
                  flast.method = "none" /\ flast.did = [k |-> "return", v |-> Undef]
    /\ (flast.op = "route" /\ flast.to = 0) =>
           /\ flast.did = [k |-> "return", v |-> Undef]
           /\ Len(flast.calls) = 1 /\ flast.calls[1].kind = "pipe"
           /\ flast.result = IF flast.silent = Bool(TRUE) THEN Undef
                             ELSE Message_success(Undef)

\* An endpoint that was joined and whose forwarder was then replaced by {}
\* routed a request through its pipe, while its former partner still
\* forwards to it
C19_Witness ==
    /\ flast.op = "route"
    /\ flast.to = 0
    /\ flast.result = Message_success(Undef)
    /\ \E b \in Endpoints : b # flast.on /\ fwd[b] = flast.on

\* C19, as stated: after two endpoints are joined, a forward() call on
\* either one is delivered to the other, whatever the other is.
C19_ForwardDelivered ==
    (flast.op = "forward" /\ flast.to > 0) => flast.method # "none"

\* C20: after any sequence of join() calls among any number of endpoints,
\* the forwarder relation is symmetric: endpoint A's forwarder is B if and
\* only if B's forwarder is A.
C20_ForwarderSymmetric ==
    \A a, b \in Endpoints : fwd[a] = b <=> fwd[b] = a

----------------------------------------------------------------------------
(* Endpoint.forward on a forwarder object whose request and post methods   *)
(* each behave in their own way                                            *)

\* Endpoint.forward(name, params) with a forwarder object having the methods
\* of fw: the calls made on the forwarder, and what forward() does
Forward(fw, name, params, requestDoes, postDoes) ==
    LET m == ForwardMethod(fw)
    IN [calls |-> IF m = "none" THEN <<>>
                  ELSE <<CallOf("forward", m, <<Str(name), params>>)>>,
        did |-> CASE fw = "undefined" /\ build = "js" ->
                         [k |-> "throw", v |-> RequestOfUndefined]
                  [] m = "request" -> requestDoes
                  [] m = "post" -> postDoes
                  [] OTHER -> [k |-> "return", v |-> Undef]]

\* A forward() call on an endpoint whose forwarder has the methods of fw
ForwardTo(fw, name, params, requestDoes, postDoes) ==
    LET r == Forward(fw, name, params, requestDoes, postDoes)
    IN /\ flast' = [op |-> "forwardTo", kind |-> fw,
                    args |-> <<Str(name), params>>,
                    requestDoes |-> requestDoes, postDoes |-> postDoes,
                    calls |-> r.calls, did |-> r.did]
       /\ UNCHANGED fwd

NextForwardTo ==
    (\E fw \in ForwarderKinds \cup {NewForwarder}, p \in ParamsSet,
        rd, pd \in Outcomes :
         ForwardTo(fw, "companion.ping", p, rd, pd))
        /\ UNCHANGED <<routeVars, nativeVars, svcVars, dlVars, prVars, connVars, appVars, pageVars>>

SpecForwardTo == InitEndpoints /\ [][NextForwardTo]_vars

\* C21, as amended: forward(name, params) invokes at most one method of the
\* forwarder, with (name, params), and does what that method does (returns
\* its result, or throws what it throws): the forwarder's request method
\* whenever it has one (also when it has a post method too), its post method
\* when it has a post method and no request method, and no method at all,
\* returning undefined, when the forwarder has neither.  On an endpoint of
\* Endpoint.js that was never joined the forwarder is undefined, and
\* forward() throws the TypeError of reading request off it.
C21_ForwardPrefersRequest ==
    flast.op = "forwardTo" =>
        /\ flast.kind \in {"request", "both"} =>
               /\ flast.calls = <<CallOf("forward", "request", flast.args)>>
               /\ flast.did = flast.requestDoes
        /\ flast.kind = "post" =>
               /\ flast.calls = <<CallOf("forward", "post", flast.args)>>
               /\ flast.did = flast.postDoes
        /\ flast.kind = "none" =>
               /\ flast.calls = <<>>
               /\ flast.did = [k |-> "return", v |-> Undef]
        /\ flast.kind = "undefined" =>
               /\ flast.calls = <<>>
               /\ flast.did = [k |-> "throw", v |-> RequestOfUndefined]

\* A forwarder with both methods, which behave differently, was called
\* through request and forward() returned what request returned
C21_Witness ==
    /\ flast.op = "forwardTo"
    /\ flast.kind = "both"
    /\ flast.requestDoes = [k |-> "return", v |-> PromiseOf(1)]
    /\ flast.postDoes = [k |-> "return", v |-> Undef]
    /\ flast.calls = <<CallOf("forward", "request", flast.args)>>
    /\ flast.did = flast.requestDoes

\* C21, as stated: forward(name, params) invokes exactly one method of the
\* forwarder, whatever the forwarder is.
C21_ExactlyOneMethod ==
    flast.op = "forwardTo" => Len(flast.calls) = 1

----------------------------------------------------------------------------
(* Claims on the arguments of handlers and pipes *)

\* The arguments a request's params stand for: the elements of an array, or
\* the one value
ParamsArguments(params) == IF params.t = "array" THEN params.items ELSE <<params>>

\* C22: for every routed request the handler is invoked with the transport
\* context, when one is supplied, as its first positional argument, followed
\* by the elements of params when params is an array or by params as one
\* single argument otherwise; when no transport context is supplied the
\* handler receives only the params arguments, built the same way.
C22_HandlerArguments ==
    (Routed /\ last.found.kind \notin {"null", "throw"}) =>
        /\ Len(last.calls) >= 1
        /\ last.calls[1].kind = last.found.kind
        /\ last.calls[1].args =
               IF last.port = Undef
               THEN ParamsArguments(last.request.params)
               ELSE <<last.port>> \o ParamsArguments(last.request.params)

\* A registered handler was called with the port and the two elements of
\* an array of params
C22_Witness ==
    /\ Routed
    /\ last.found.kind = "handler"
    /\ last.port = ThePort
    /\ last.request.params = Arr(<<Str("x"), Str("y")>>)
    /\ last.calls = <<CallOf("handler", last.found.h, <<ThePort, Str("x"), Str("y")>>)>>

\* An endpoint of either class: the base class, or the background listener
\* whose pipes drop the port
InitPipes ==
    /\ \E c \in {"Endpoint", "BackgroundListener"} : InitEndpoint(c)
    /\ InitNative /\ InitDownload /\ InitPrint /\ InitExt

SpecPipes == InitPipes /\ [][NextRoute]_vars

\* The params value a pipe should forward for the params of a request
ForwardedParams(params) ==
    IF params.t # "array" THEN params
    ELSE IF Len(params.items) = 0 THEN Null
    ELSE IF Len(params.items) = 1 THEN params.items[1]
    ELSE params

\* A request was resolved through a pipe and forwarded
Piped == Routed /\ last.found.kind = "pipe" /\ Len(last.calls) = 2

\* C23, as amended: for a request resolved through a pipe of a
\* BackgroundListener routed with a transport context, or through a pipe of
\* a base Endpoint routed without one, the params value handed to forward()
\* is built from the request's params only: a non-array params value is
\* forwarded unchanged, an array of two or more elements as an equal array,
\* a one-element array [x] as x, and an empty array as null.
C23_PipeParams ==
    (/\ Piped
     /\ \/ cls = "BackgroundListener" /\ last.port # Undef
        \/ cls = "Endpoint" /\ last.port = Undef)
    => /\ last.calls[2].kind = "forward"
       /\ last.calls[2].args =
              <<Str(last.request.name), ForwardedParams(last.request.params)>>

\* A background listener routed, with a port, a piped request whose params
\* are a one-element array, and forwarded the element
C23_Witness ==
    /\ Piped
    /\ cls = "BackgroundListener"
    /\ last.port = ThePort
    /\ last.request.params = Arr(<<Str("x")>>)
    /\ last.calls[2].args = <<Str(last.request.name), Str("x")>>

\* C23, as stated: for a request resolved through a pipe, the params value
\* handed to forward() is built from the request's params only and never
\* contains the transport context, whatever the endpoint.
C23_NeverThePort ==
    Piped =>
        last.calls[2].args =
            <<Str(last.request.name), ForwardedParams(last.request.params)>>

----------------------------------------------------------------------------
(* The pipe lists under pipe(...routes) with several routes and unpipe *)

MaxPiped == 2

Matchers == {Str(n) : n \in RouteNames} \cup RegExps

IsPlain(m) == m.t = "string"
IsRegExp(m) == m.t = "RegExp"

\* Endpoint.pipe(...routes): every route is pushed on the list of its type
PipeAll(ms) ==
    /\ last.op = "idle"
    /\ Len(plain) + Len(SelectSeq(ms, IsPlain)) <= MaxPiped
    /\ Len(regexp) + Len(SelectSeq(ms, IsRegExp)) <= MaxPiped
    /\ plain' = plain \o SelectSeq(ms, IsPlain)
    /\ regexp' = regexp \o SelectSeq(ms, IsRegExp)
    /\ last' = Idle
    /\ UNCHANGED <<cls, routes, forwarder>>

NextUnpipe ==
    \/ \E a \in Matchers : PipeAll(<<a>>)
          /\ UNCHANGED <<nativeVars, dlVars, prVars, extVars>>
    \/ \E a \in Matchers, b \in Matchers : PipeAll(<<a, b>>)
          /\ UNCHANGED <<nativeVars, dlVars, prVars, extVars>>
    \/ \E m \in Matchers : Unpipe(m)
          /\ UNCHANGED <<nativeVars, dlVars, prVars, extVars>>
    \/ \E n \in RouteNames, h \in HandlerIds : On(n, h)
          /\ UNCHANGED <<nativeVars, dlVars, prVars, extVars>>
    \/ \E n \in RouteNames : Off(n)
          /\ UNCHANGED <<nativeVars, dlVars, prVars, extVars>>

SpecUnpipe == InitRoute /\ [][NextUnpipe]_vars

\* The matchers that were piped and not deleted
PipedMatchers(pl, re) ==
    ({pl[i] : i \in 1..Len(pl)} \cup {re[i] : i \in 1..Len(re)}) \ {Hole}

\* The matcher x matches the name n
MatchedBy(x, n) == IF IsPlain(x) THEN x = Str(n) ELSE Test(x, n)

\* The name resolves through a pipe
ResolvesThroughPipe(rts, pl, re, n) == FindRoute(rts, pl, re, n).kind = "pipe"

\* C24: after unpipe(m), the names that resolve through a pipe are exactly
\* those matched by a piped matcher other than m (also when m had been piped
\* more than once); unpipe of a matcher never piped changes no routing.
C24_UnpipeRemovesMatcher ==
    [][\A m \in Matchers :
          Unpipe(m) =>
              \A n \in RequestNames :
                  RoutesLookup(routes, n).kind = "undefined" =>
                      (ResolvesThroughPipe(routes', plain', regexp', n)
                         <=> \E x \in PipedMatchers(plain, regexp) \ {m} :
                                 MatchedBy(x, n))]_vars

----------------------------------------------------------------------------
(* Endpoint.on with any value as handler, and Endpoint.off *)

Fn(h) == [t |-> "function", h |-> h]

NotCallable == {Undef, Null, Str("x"), Arr(<<>>)}
HandlerValues == {Fn(h) : h \in HandlerIds} \cup NotCallable
OffNames == RouteNames \cup InheritedNames

\* typeof handler === "function"
TypeofFunction(v) == v.t = "function"

\* The string that on() throws
NotAFunction(name) ==
    [t |-> "string", template |-> "Handler for '${name}' is not a function",
     name |-> name]

\* Endpoint.on, were the entry of the name cleared before the type test
OnResultClearsFirst(rts, name, handler) ==
    IF TypeofFunction(handler)
    THEN [routes |-> [rts EXCEPT ![name] = handler.h], thrown |-> Undef]
    ELSE [routes |-> [rts EXCEPT ![name] = NoHandler], thrown |-> NotAFunction(name)]

\* Endpoint.on: the route table after the call, and what the call throws
OnResult(rts, name, handler) ==
    IF TypeofFunction(handler)
    THEN [routes |-> [rts EXCEPT ![name] = handler.h], thrown |-> Undef]
    ELSE [routes |-> rts, thrown |-> NotAFunction(name)]

\* Endpoint.off: delete this.routes[name] when this.routes[name] is truthy;
\* deleting a property the table does not own changes nothing
OffResult(rts, name) ==
    IF RoutesLookup(rts, name).kind # "undefined" /\ name \in DOMAIN rts
    THEN [routes |-> [rts EXCEPT ![name] = NoHandler], thrown |-> Undef]
    ELSE [routes |-> rts, thrown |-> Undef]

OnCall(name, handler) ==
    /\ last.op = "idle"
    /\ routes' = OnResult(routes, name, handler).routes
    /\ last' = [op |-> "on", name |-> name, handler |-> handler, before |-> routes,
                thrown |-> OnResult(routes, name, handler).thrown]
    /\ UNCHANGED <<cls, plain, regexp, forwarder>>

OffCall(name) ==
    /\ last.op = "idle"
    /\ routes' = OffResult(routes, name).routes
    /\ last' = [op |-> "off", name |-> name, before |-> routes,
                thrown |-> OffResult(routes, name).thrown]
    /\ UNCHANGED <<cls, plain, regexp, forwarder>>

\* The caller of on() or off() goes on
CallerGoesOn ==
    /\ last.op \in {"on", "off"}
    /\ last' = Idle
    /\ UNCHANGED <<cls, routes, plain, regexp, forwarder>>

NextRegister ==
    \/ \E n \in RouteNames, v \in HandlerValues : OnCall(n, v)
          /\ UNCHANGED <<nativeVars, dlVars, prVars, extVars>>
    \/ \E n \in OffNames : OffCall(n)
          /\ UNCHANGED <<nativeVars, dlVars, prVars, extVars>>
    \/ CallerGoesOn /\ UNCHANGED <<nativeVars, dlVars, prVars, extVars>>

SpecRegister == InitRoute /\ [][NextRegister]_vars

\* C25: registering a handler that is not callable throws and leaves the
\* route table unchanged (a handler registered before under the name stays);
\* unregistering a name that has no handler changes nothing and throws
\* nothing.
C25_RegisterNotCallable ==
    /\ (last.op = "on" /\ ~TypeofFunction(last.handler)) =>
           /\ last.thrown # Undef
           /\ routes = last.before
    /\ (last.op = "off" /\ RoutesLookup(last.before, last.name).kind # "handler") =>
           /\ last.thrown = Undef
           /\ routes = last.before

\* on() was called with a string as handler for a name that had a handler:
\* it threw, and the handler is still registered
C25_Witness ==
    /\ last.op = "on"
    /\ last.handler = Str("x")
    /\ last.thrown = NotAFunction(last.name)
    /\ last.before[last.name] = "H1"
    /\ routes[last.name] = "H1"

----------------------------------------------------------------------------
(* handleMessage of the endpoints that listen on a port *)

PortEndpoints == {"BackgroundListener", "BackgroundClient", "NativeHostClient"}

\* The port that handleMessage passes to route(): only the background
\* listener passes one
RoutedPort(c) == IF c = "BackgroundListener" THEN ThePort ELSE Undef

\* What a handler posts on the channel when it posts
HandlerMessage == Str("event")

\* The messages the handler called by route() posted on the channel
HandlerPosted(found, posts) ==
    IF found.kind = "handler" /\ posts THEN <<HandlerMessage>> ELSE <<>>

\* handleMessage, were the value that route() returns posted back
ChannelAfterReply(handlerPosted, result) ==
    IF result = Undef THEN handlerPosted ELSE Append(handlerPosted, result)

\* The messages on the channel after handleMessage: route() is called and
\* what it returns is dropped
ChannelAfter(handlerPosted, result) == handlerPosted

\* handleMessage(message) and handleMessage(message, port)
HandleMessage(name, params, silent, outcome, posts) ==
    LET r == RouteEval(cls, routes, plain, regexp, forwarder,
                       name, params, silent, RoutedPort(cls), outcome)
        handlerPosted == HandlerPosted(r.found, posts)
    IN /\ last.op = "idle"
       /\ last' = [op |-> "handleMessage",
                   handlerPosted |-> handlerPosted,
                   sent |-> IF r.result.t = "throw" THEN handlerPosted
                            ELSE ChannelAfter(handlerPosted, r.result),
                   returned |-> IF r.result.t = "throw" THEN r.result ELSE Undef] @@ r
       /\ forwarder' = ForwarderAfter(forwarder, r.found)
       /\ UNCHANGED <<cls, routes, plain, regexp>>

DoHandleMessage ==
    \E n \in RequestNames, p \in ParamsSet, s \in SilentSet, o \in Outcomes,
       posts \in BOOLEAN : HandleMessage(n, p, s, o, posts)

\* The browser's event dispatch goes on after the listener
ListenerReturns ==
    /\ last.op = "handleMessage"
    /\ last' = Idle
    /\ UNCHANGED <<cls, routes, plain, regexp, forwarder>>

InitMessage ==
    /\ \E c \in PortEndpoints : InitEndpoint(c)
    /\ InitNative /\ InitDownload /\ InitPrint /\ InitExt

NextMessage ==
    \/ Configure /\ UNCHANGED <<nativeVars, dlVars, prVars, extVars>>
    \/ DoHandleMessage /\ UNCHANGED <<nativeVars, dlVars, prVars, extVars>>
    \/ ListenerReturns /\ UNCHANGED <<nativeVars, dlVars, prVars, extVars>>

SpecMessage == InitMessage /\ [][NextMessage]_vars

\* C26: handling a message received on a port never sends the value that
\* route() returns back on the port: after the message is routed the only
\* messages posted are those the handler posted itself, and handleMessage
\* returns nothing (or is left by the error that route() threw).
C26_ReturnNotPosted ==
    last.op = "handleMessage" =>
        /\ last.sent = last.handlerPosted
        /\ ~Includes(last.sent, last.result)
        /\ last.returned = IF last.found.kind = "throw" THEN last.result ELSE Undef

\* A message was routed to a handler that posted and returned: route()
\* returned a response with code 200 and only the handler's message was sent
C26_Witness ==
    /\ last.op = "handleMessage"
    /\ last.found.kind = "handler"
    /\ IsResponse(last.result)
    /\ CodeIs200(last.result)
    /\ last.sent = <<HandlerMessage>>

----------------------------------------------------------------------------
(* NativeHostClient.post *)

PostAsyncSet == {Undef, Bool(TRUE)}

\* port.postMessage(request) of the browser: a closed port throws
PortPostMessage(ports, port, request) ==
    IF ports[port].state = "open"
    THEN [sent |-> <<[port |-> port, message |-> request]>>, thrown |-> Undef]
    ELSE [sent |-> <<>>,
          thrown |-> ErrorObj("Attempting to use a disconnected port object")]

\* NativeHostClient.post: this.port?.postMessage(request) in the TypeScript
\* source, this.port.postMessage(request) in the JavaScript source
NativePost(b, port, ports, route, params, async) ==
    LET request == RequestOf(route, params, async)
    IN IF IsConnected(port) THEN PortPostMessage(ports, port, request)
       ELSE IF b = "ts" THEN [sent |-> <<>>, thrown |-> Undef]
       ELSE [sent |-> <<>>,
             thrown |-> TypeErrorObj("Cannot read properties of null (reading 'postMessage')")]

\* A call of post(route, params, async)
DoPost ==
    \E route \in RouteNames, params \in ParamsSet, async \in PostAsyncSet :
        LET r == NativePost(build, nport, nports, route, params, async)
        IN /\ nlast' = [op |-> "post", before |-> nport, known |-> Len(nports),
                        ret |-> IsConnected(nport),
                        sent |-> r.sent, thrown |-> r.thrown]
           /\ UNCHANGED <<nport, nports>>

InitPost ==
    /\ InitEndpoint("NativeHostClient") /\ InitNative /\ InitDownload /\ InitPrint
    /\ InitConnection /\ InitPorts /\ InitRequests /\ InitNodes /\ InitJoin
    /\ InitServices
    /\ build \in {"js", "ts"}
    /\ options = DEFAULT_OPTIONS

NextPost ==
    \/ NextConnection
    \/ DoPost /\ UNCHANGED <<routeVars, nativeVars, svcVars, dlVars, prVars, appVars, pageVars, joinVars>>

SpecPost == InitPost /\ [][NextPost]_vars

\* C27: posting through NativeHostClient.post while the client is
\* disconnected (isConnected() is false) raises no exception and sends
\* nothing.
C27_PostDisconnectedSilent ==
    (nlast.op = "post" /\ ~IsConnected(nlast.before)) =>
        /\ nlast.thrown = Undef
        /\ nlast.sent = <<>>

----------------------------------------------------------------------------
(* The job handed to the browser's download call *)

\* Jobs a page may submit, told apart by their id: with allowed keys only,
\* with the keys the background script adds, and with a key of the downloads
\* API that is not on the allow-list
SubmittedJobs ==
    {[url |-> Str("https://the.urlto.use"), filename |-> Str("a.pdf"), id |-> Num(1)],
     [url |-> Str("https://the.urlto.use"), filename |-> Str("b.pdf"),
      method |-> Str("POST"), saveAs |-> Bool(FALSE), id |-> Num(2),
      name |-> Str("doc"), printerName |-> Str("PDF"), onFinish |-> OnFinishCb],
     [url |-> Str("https://the.urlto.use"), filename |-> Str("sub/c.pdf"),
      body |-> Str("q=1"), conflictAction |-> Str("overwrite"),
      headers |-> Arr(<<>>), incognito |-> Bool(TRUE), method |-> Str("POST"),
      saveAs |-> Bool(TRUE), id |-> Num(3), cookieStoreId |-> Str("store")]}

DoSubmit ==
    \E job \in SubmittedJobs, accept \in BOOLEAN : CreateJob(ThePort, job, accept)

NextSubmit ==
    \/ DoSubmit /\ UNCHANGED <<routeVars, nativeVars, prVars, extVars>>
    \/ DoStarted /\ UNCHANGED <<routeVars, nativeVars, prVars, extVars>>
    \/ DoRefused /\ UNCHANGED <<routeVars, nativeVars, prVars, extVars>>
    \/ ForeignStart /\ UNCHANGED <<routeVars, nativeVars, prVars, extVars>>
    \/ DoCreated /\ UNCHANGED <<routeVars, nativeVars, prVars, extVars>>
    \/ DoChanged /\ UNCHANGED <<routeVars, nativeVars, prVars, extVars>>
    \/ DoConfigureDownload
           /\ UNCHANGED <<routeVars, nativeVars, dlVars, prVars, connVars, appVars, pageVars, joinVars>>

SpecSubmit == InitJobs /\ [][NextSubmit]_vars

\* The job that was submitted in a call of createJob
SubmittedIn(call) == CHOOSE job \in SubmittedJobs : job.id = call.response.id

\* C28: the job object that createJob hands to the browser download call
\* contains only keys from the allow-list, and its filename is the
\* configured base directory followed by the filename that was requested
\* (the directory is the one configured when createJob was called; the
\* JavaScript service, called before any was configured, prefixes "null").
C28_HandedJobNarrowed ==
    \A k \in 1..Len(dcalls) :
        /\ DOMAIN dcalls[k].handed \subseteq AllowedKeys
        /\ dcalls[k].handed.filename =
               Str(DirString(dcalls[k].dir) \o SubmittedIn(dcalls[k]).filename.s)

\* createJob was called with a job that carries a key outside the
\* allow-list and a filename with a directory
C28_Witness ==
    /\ Len(dcalls) = 1
    /\ dcalls[1].response.id = Num(3)
    /\ DOMAIN dcalls[1].handed = AllowedKeys
    /\ dcalls[1].handed.filename = Str(DirDownloads.s \o "sub/c.pdf")

----------------------------------------------------------------------------
(* Message.request and Request.check *)

\* typeof v
Typeof(v) ==
    CASE v.t \in {"undefined", "string", "boolean", "number", "function"} -> v.t
      [] OTHER -> "object"

\* new Request(name, params)
NewRequest(name, params) ==
    [name |-> Str(name), params |-> params, id |-> Str("-1"), delay |-> Num(0),
     async |-> Bool(FALSE), silent |-> Bool(FALSE)]

\* ensureType, were a property kept whenever it is truthy
EnsureTypeOrDefault(target, property, expected, value) ==
    IF ~Truthy(target[property])
    THEN [target EXCEPT ![property] = value]
    ELSE target

\* ensureType(target, property, expected, value) on an object
EnsureType(target, property, expected, value) ==
    IF Typeof(target[property]) # expected
    THEN [target EXCEPT ![property] = value]
    ELSE target

TypeOfNumber(target, property, value) == EnsureType(target, property, "number", value)
TypeOfBoolean(target, property, value) == EnsureType(target, property, "boolean", value)
TypeOfString(target, property, value) == EnsureType(target, property, "string", value)

\* Request.check
Check(request) ==
    LET r1 == TypeOfNumber(request, "delay", Num(0))
        r2 == TypeOfBoolean(r1, "async", Bool(FALSE))
        r3 == TypeOfBoolean(r2, "silent", Bool(FALSE))
    IN TypeOfString(r3, "id", Str("-1"))

CheckedFields == {"delay", "async", "silent", "id"}
FieldValues ==
    {Undef, Null, Str("42"), Str(""), Num(0), Num(5), Bool(TRUE), Bool(FALSE), Arr(<<>>)}

\* Message.request(name, params)
MessageRequest(name, params) ==
    /\ last.op = "idle"
    /\ last' = [op |-> "request", request |-> NewRequest(name, params), set |-> {}]
    /\ UNCHANGED <<cls, routes, plain, regexp, forwarder>>

\* An assignment to a field of the request
SetField(f, v) ==
    /\ last.op = "request"
    /\ last' = [last EXCEPT !.request[f] = v, !.set = @ \cup {f}]
    /\ UNCHANGED <<cls, routes, plain, regexp, forwarder>>

\* A call of request.check()
DoCheck ==
    /\ last.op = "request"
    /\ last' = [op |-> "check", before |-> last.request,
                request |-> Check(last.request), set |-> last.set,
                thrown |-> Undef]
    /\ UNCHANGED <<cls, routes, plain, regexp, forwarder>>

\* The request is used and dropped
Checked ==
    /\ last.op = "check"
    /\ last' = Idle
    /\ UNCHANGED <<cls, routes, plain, regexp, forwarder>>

NextCheck ==
    \/ (\E n \in RouteNames, p \in {Undef, Str("x")} : MessageRequest(n, p))
           /\ UNCHANGED <<nativeVars, dlVars, prVars, extVars>>
    \/ (\E f \in CheckedFields, v \in FieldValues : SetField(f, v))
           /\ UNCHANGED <<nativeVars, dlVars, prVars, extVars>>
    \/ DoCheck /\ UNCHANGED <<nativeVars, dlVars, prVars, extVars>>
    \/ Checked /\ UNCHANGED <<nativeVars, dlVars, prVars, extVars>>

SpecCheck == InitRoute /\ [][NextCheck]_vars

ExpectedType(f) ==
    CASE f = "delay" -> "number"
      [] f \in {"async", "silent"} -> "boolean"
      [] f = "id" -> "string"

DefaultOf(f) ==
    CASE f = "delay" -> Num(0)
      [] f \in {"async", "silent"} -> Bool(FALSE)
      [] f = "id" -> Str("-1")

\* C29: a Request built by Message.request(name, params) with no other field
\* set has, after check(), delay 0, async false, silent false and id "-1";
\* for any Request, check() does not throw, replaces each of the four fields
\* by its default when the field has the wrong runtime type, and leaves the
\* well-typed fields (and name and params) unchanged.
C29_CheckDefaults ==
    last.op = "check" =>
        /\ last.thrown = Undef
        /\ last.set = {} =>
               /\ last.request.delay = Num(0)
               /\ last.request.async = Bool(FALSE)
               /\ last.request.silent = Bool(FALSE)
               /\ last.request.id = Str("-1")
        /\ \A f \in CheckedFields :
               last.request[f] = IF Typeof(last.before[f]) = ExpectedType(f)
                                 THEN last.before[f]
                                 ELSE DefaultOf(f)
        /\ last.request.name = last.before.name
        /\ last.request.params = last.before.params

\* check() ran on a request whose delay was a string and whose id and async
\* were set and well typed: the delay is 0, the id and async are kept
C29_Witness ==
    /\ last.op = "check"
    /\ last.before.delay = Str("42")
    /\ last.before.id = Str("42")
    /\ last.before.async = Bool(TRUE)
    /\ last.request.delay = Num(0)
    /\ last.request.id = Str("42")
    /\ last.request.async = Bool(TRUE)

----------------------------------------------------------------------------
(* The native client and the two services together: calls that fail *)

RetryResponses == {r \in NativeResponses : r.code \in {200, 403}}
RetryPrintJobs ==
    {j \in PrintJobs : /\ j.filename = Str("/dl/a.pdf")
                       /\ j.printerName # Undef
                       /\ CallbackDoes(j.onFinish) # "throwsOnce"}

\* The events of a download that matter to its call: it is created, and it
\* goes on, is interrupted, completes or fails
RetryItems == {i \in Items : i.fileSize = Num(-1)}
RetryDeltas == {d \in JobDeltas : d.filename = Undef /\ d.fileSize = Undef}

NextCalls ==
    \/ NativeRequest("companion.ping", Undef, Undef)
           /\ UNCHANGED <<routeVars, dlVars, prVars, extVars>>
    \/ (\E i \in 1..Len(nreq), r \in RetryResponses : NativeAnswer(i, r))
           /\ UNCHANGED <<routeVars, dlVars, prVars, extVars>>
    \/ (\E i \in 1..Len(nreq) : NativeFail(i, ErrorObj("Native host has exited")))
           /\ UNCHANGED <<routeVars, dlVars, prVars, extVars>>
    \/ DoCreateJob /\ UNCHANGED <<routeVars, nativeVars, prVars, extVars>>
    \/ DoStarted /\ UNCHANGED <<routeVars, nativeVars, prVars, extVars>>
    \/ DoRefused /\ UNCHANGED <<routeVars, nativeVars, prVars, extVars>>
    \/ (\E item \in RetryItems : Created(item))
           /\ UNCHANGED <<routeVars, nativeVars, prVars, extVars>>
    \/ (\E id \in DownloadIds, d \in RetryDeltas : Changed(id, d))
           /\ UNCHANGED <<routeVars, nativeVars, prVars, extVars>>
    \/ (\E job \in RetryPrintJobs : PrintCreateJob(ThePort, job))
           /\ UNCHANGED <<routeVars, nativeVars, dlVars, extVars>>
    \/ DoPrintFulfilled /\ UNCHANGED <<routeVars, nativeVars, dlVars, extVars>>
    \/ DoPrintRejected /\ UNCHANGED <<routeVars, nativeVars, dlVars, extVars>>
    \/ DoPrintCaught /\ UNCHANGED <<routeVars, nativeVars, dlVars, extVars>>
    \/ DoConfigureDownload
           /\ UNCHANGED <<routeVars, nativeVars, dlVars, prVars, connVars, appVars, pageVars, joinVars>>
    \/ DoConfigurePrinter
           /\ UNCHANGED <<routeVars, nativeVars, dlVars, prVars, connVars, appVars, pageVars, joinVars>>

SpecCalls == InitJobs /\ [][NextCalls]_vars

\* The underlying call of a request, of a download job, of a print job has
\* been answered or has failed
NativeEnded(i) == nreq[i].native.k # "pending"
DownloadCallEnded(k) == dcalls[k].promise # "pending"
PrintCallEnded(k) == pcalls[k].native # "pending"

\* C30: no component re-issues a failed operation: each call of
\* NativeHostClient.request, DownloadService.createJob and
\* PrinterService.createJob triggers at most one call of the underlying API;
\* once that call has been answered or has failed (also with a non-200
\* response) the component never has it pending again, and the browser never
\* holds more downloads of the service than createJob was called.
C30_NoReissue ==
    [][/\ \A i \in 1..Len(nreq) :
              NativeEnded(i) => nreq'[i].native = nreq[i].native
       /\ \A k \in 1..Len(dcalls) :
              DownloadCallEnded(k) =>
                  /\ dcalls'[k].promise = dcalls[k].promise
                  /\ dcalls'[k].id = dcalls[k].id
       /\ Cardinality({i \in DownloadIds : dl'[i].origin = "service"}) <= Len(dcalls')
       /\ \A k \in 1..Len(pcalls) :
              PrintCallEnded(k) =>
                  /\ pcalls'[k].native = pcalls[k].native
                  /\ pcalls'[k].state # "pending"
                  /\ pcalls'[k].request = pcalls[k].request
       /\ Len(nreq') >= Len(nreq)
       /\ Len(dcalls') >= Len(dcalls)
       /\ Len(pcalls') >= Len(pcalls)]_vars

\* A native request failed in the transport and another was answered with a
\* code that is not 200, a download failed after it had started, and a print
\* request was rejected and its catch-callback has run: every call has ended
C30_Witness ==
    /\ Len(nreq) = 2
    /\ nreq[1].native.k = "error"
    /\ nreq[2].native.k = "response"
    /\ nreq[2].native.v.code = 403
    /\ Len(dcalls) = 1
    /\ dcalls[1].promise = "fulfilled"
    /\ dl[dcalls[1].id].state = "failed"
    /\ Len(pcalls) >= 1
    /\ pcalls[1].native = "rejected"
    /\ pcalls[1].state = "settled"

----------------------------------------------------------------------------
(* Claims on the races and the reach of the download service *)

\* The browser has reported the end of the download an accepted call started
ReportedFinished(k) ==
    /\ dcalls[k].id # 0
    /\ dl[dcalls[k].id].state \in {"complete", "failed"}

\* C31: for every job accepted by createJob, once the browser has reported
\* that the download finished (state complete, or an error) and the download
\* call has been fulfilled, the completion callback has been invoked exactly
\* once, in every interleaving of the created and changed events with the
\* fulfilment of the download call.
C31_CallbackExactlyOnce ==
    \A k \in 1..Len(dcalls) :
        (ReportedFinished(k) /\ dcalls[k].promise # "pending") =>
            Len(finished[dcalls[k].id]) = 1

\* C32: the download service never removes a file and never erases a history
\* entry for a download that was not started through its own createJob.
C32_ForeignOnlyObserved ==
    \A id \in DownloadIds :
        dl[id].origin = "foreign" => (removed[id] = 0 /\ erased[id] = 0)

----------------------------------------------------------------------------
(* Claims on the print of a downloaded document *)

\* The download of request i finished and its response reports a success
DownloadSucceeded(i) ==
    \A k \in areqs[i].downloads :
        /\ dcalls[k].id # 0
        /\ Len(finished[dcalls[k].id]) >= 1
        /\ finished[dcalls[k].id][1].response.success = Bool(TRUE)

\* C33: a print request is sent to the native host for a
\* companion.document.print request only if the preceding download of that
\* document finished successfully; a download that ends in failure never
\* leads to a native print request.
C33_PrintOnlyAfterSuccess ==
    \A i \in 1..Len(areqs) :
        \A p \in areqs[i].prints :
            pcalls[p].request # Undef => DownloadSucceeded(i)

\* The invocations of the completion callback of print call k
PrintCallbacksOf(k) == {i \in 1..Len(pdone) : pdone[i].by = k}

\* C34: for every print job accepted by PrinterService.createJob (printer
\* name present) that has come to its end (its native request has settled,
\* or the service had no host client), the completion callback has been
\* invoked exactly once, and once every call for its filename has ended the
\* registry holds no entry for the job, including when two jobs with the
\* same filename are in flight at the same time and when the completion
\* callback itself throws.
C34_PrintCallbackOnce ==
    \A k \in 1..Len(pcalls) :
        pcalls[k].state \in {"settled", "unconfigured"} =>
            /\ Cardinality(PrintCallbacksOf(k)) = 1
            /\ (\A j \in 1..Len(pcalls) :
                    pcalls[j].id = pcalls[k].id =>
                        pcalls[j].state \notin {"pending", "rejected"})
                   => pjobs[pcalls[k].id] = Undef

----------------------------------------------------------------------------
(* Claims on the ports of the native client and of the background listener *)

\* The native ports that are open
OpenPorts == {p \in 1..Len(nports) : nports[p].state = "open"}

\* C35: in every interleaving of connect(), disconnect() and native port
\* disconnect events, at most one native port is open, an open port is the
\* one the client holds, and when isConnected() is true the port held is
\* open or its disconnect event is still to be delivered.
C35_OneOpenPort ==
    /\ Cardinality(OpenPorts) <= 1
    /\ \A p \in OpenPorts : nport = p
    /\ IsConnected(nport) =>
           (nports[nport].state = "open" \/ nports[nport].event = "queued")

\* C36: handling a created or changed event for a tracked download never
\* faults, whatever fields the delta carries and whatever the event order:
\* no listener call dereferences a missing job or a missing response.
C36_ListenersNeverFault == dfault = FALSE

MaxSharedPorts == 5

\* The background listener alone, with several ports of one context
NextPorts ==
    \/ (\E c \in Contexts : PortConnectsUpTo(c, MaxSharedPorts))
           /\ UNCHANGED <<routeVars, nativeVars, svcVars, dlVars, prVars, connVars, pageVars, joinVars>>
    \/ (\E c \in Contexts, p \in 1..MaxSharedPorts : PortDisconnects(c, p))
           /\ UNCHANGED <<routeVars, nativeVars, svcVars, dlVars, prVars, connVars, pageVars, joinVars>>

SpecPorts == InitBackground /\ [][NextPorts]_vars

\* The port is the one post() reaches under some context id
RegisteredPort(p) == \E c \in Contexts : lports[c] = p

\* C37: in every sequence of port connect and disconnect events, every port
\* that has connected and not yet disconnected is registered in the
\* background listener and reachable by post() under its context id, and no
\* disconnected port is registered, also when several ports share one
\* context id.
C37_OpenPortsRegistered ==
    /\ \A p \in lopen : RegisteredPort(p)
    /\ \A c \in Contexts : lports[c] # 0 => lports[c] \in lopen

----------------------------------------------------------------------------
(* Claims on silent requests and on relayed errors *)

\* C38: route() of a request with silent = true returns no value in every
\* case, including when no handler and no pipe matches the request name.
C38_SilentReturnsNothing ==
    (Routed /\ last.request.silent = Bool(TRUE)) => last.result = Undef

MaxHops == 3

ErrorMessages ==
    {Str("denied"), Str("Printer not defined"), Str("Native host has exited"),
     Str(""), ErrorObj("boom"), TypeErrorObj("x is undefined"), Null, Num(5)}
ErrorTypes == {Undef, Null, Str(""), Str("auth"), Str("printer"), Str("native")}

\* A handler answers with Message.error(m, t), or is left by the TypeError
\* that the constructor throws
RaiseError(m, t) ==
    /\ last.op = "idle"
    /\ last' = IF Message_error(m, t).t = "throw"
               THEN [op |-> "thrown", error |-> Message_error(m, t).v]
               ELSE [op |-> "error", hops |-> 0, original |-> Message_error(m, t),
                     relayed |-> Message_error(m, t)]
    /\ UNCHANGED <<cls, routes, plain, regexp, forwarder>>

\* A hop of the transport wraps the error it received: Message.error(error)
RelayError ==
    /\ last.op = "error"
    /\ last.hops < MaxHops
    /\ last' = [last EXCEPT !.hops = @ + 1,
                            !.relayed = Message_error(last.relayed, Undef)]
    /\ UNCHANGED <<cls, routes, plain, regexp, forwarder>>

\* The caller has received the error
ErrorReceived ==
    /\ last.op \in {"error", "thrown"}
    /\ last' = Idle
    /\ UNCHANGED <<cls, routes, plain, regexp, forwarder>>

NextRelay ==
    \/ (\E m \in ErrorMessages, t \in ErrorTypes : RaiseError(m, t))
           /\ UNCHANGED <<nativeVars, dlVars, prVars, extVars>>
    \/ RelayError /\ UNCHANGED <<nativeVars, dlVars, prVars, extVars>>
    \/ ErrorReceived /\ UNCHANGED <<nativeVars, dlVars, prVars, extVars>>

SpecRelay == InitRoute /\ [][NextRelay]_vars

\* C39: wrapping an error response again preserves it: an error relayed
\* across several hops has the message and the type of the original error.
C39_RelayPreservesError ==
    last.op = "error" =>
        /\ last.relayed.message = last.original.message
        /\ last.relayed.type = last.original.type

====
